---- MODULE Spec2Model ----
(***************************************************************************)
(* Hydroponics monitoring: the MQTT ingestion handler (mqtt_handler.py),   *)
(* the classifier adapter (model_handler.py), the state store              *)
(* (data_logger.py), the command publisher (actuator_controller.py), the   *)
(* dashboard's control tab (dashboard.py) and the simulated device         *)
(* (test.py).                                                              *)
(***************************************************************************)
EXTENDS Integers, Sequences, FiniteSets, TLC

(***************************************************************************)
(* Bounds of the model.                                                    *)
(***************************************************************************)
\* classifier outputs range over every table index plus ExtraIdx indices
\* that lie outside the label table
ExtraIdx == 1
\* the wall clock runs from StartClock to StartClock + MaxTicks
MaxTicks == 2
\* the wall clock at construction of the ingestion client: at least one log
\* interval after the epoch
StartClock == 5
\* messages in flight on one topic
MaxInFlight == 1
\* seconds of paced arrival: six log intervals and a second more
PacedSeconds == 31
\* seconds a message may wait for the handler
MaxLag == 1
\* the wall clock of the gate runs from StartClock to StartClock + GateSeconds
GateSeconds == 6
\* rows of the history log
MaxRows == 3
NumSessions == 2
MaxClients == 2
TimerSeconds == 6

(***************************************************************************)
(* config.py                                                               *)
(***************************************************************************)
DEFAULT_LOG_INTERVAL_SECONDS == 5

PH_LABELS == [i \in 0..4 |->
    CASE i = 0 -> "Too Low" [] i = 1 -> "Low" [] i = 2 -> "Normal"
      [] i = 3 -> "High" [] i = 4 -> "Too High"]
TDS_LABELS == [i \in 0..4 |->
    CASE i = 0 -> "Too Low" [] i = 1 -> "Low" [] i = 2 -> "Normal"
      [] i = 3 -> "High" [] i = 4 -> "Too High"]
AMBIENT_LABELS == [i \in 0..2 |->
    CASE i = 0 -> "Bad" [] i = 1 -> "Slightly Off" [] i = 2 -> "Ideal"]
LIGHT_LABELS == [i \in 0..2 |->
    CASE i = 0 -> "Too Dark" [] i = 1 -> "Normal" [] i = 2 -> "Too Bright"]

ACTUATOR_KEYS == <<"pump_nutrition_AB", "pump_water", "pump_Ph_Up",
                   "pump_Ph_Down", "fan", "led">>
ActuatorSet == {ACTUATOR_KEYS[i] : i \in 1..Len(ACTUATOR_KEYS)}

\* the eight fields of a sensor reading, and the six the classifier was
\* trained on, in the order predict_condition builds the frame
SENSOR_FIELDS == <<"ph", "tds", "water_flow", "air_humidity", "air_temperature",
                   "ldr_value", "water_temperature", "water_level">>
FEATURE_FIELDS == <<"ph", "tds", "water_temperature", "air_humidity",
                    "air_temperature", "ldr_value">>
SensorFieldSet == {SENSOR_FIELDS[i] : i \in 1..Len(SENSOR_FIELDS)}
FeatureFieldSet == {FEATURE_FIELDS[i] : i \in 1..Len(FEATURE_FIELDS)}

(***************************************************************************)
(* JSON values as Python sees them after json.loads.  A number is kept as  *)
(* an integer (tenths are not needed by any rule of the program).          *)
(***************************************************************************)
JNum(n)    == [t |-> "num", v |-> n]
JNumStr(n) == [t |-> "numstr", v |-> n]   \* a string such as "7" that float() parses
JStr       == [t |-> "str", v |-> 0]      \* a string float() rejects
JNull      == [t |-> "null", v |-> 0]
JBool(b)   == [t |-> "bool", v |-> IF b THEN 1 ELSE 0]

\* the result of a call that may raise: ok = FALSE is the exception
Ok(v) == [ok |-> TRUE, v |-> v]
Raised(dummy) == [ok |-> FALSE, v |-> dummy]

\* Python's float(x): numbers, numeric strings and booleans convert, every
\* other value raises
PyFloat(x) ==
    CASE x.t = "num" -> Ok(x.v)
      [] x.t = "numstr" -> Ok(x.v)
      [] x.t = "bool" -> Ok(x.v)
      [] OTHER -> Raised(0)

\* utils.safe_float: float(x), and the default when float(x) raises
safe_float(x) == IF PyFloat(x).ok THEN PyFloat(x).v ELSE 0

\* dict.get(key, 0) on a parsed JSON object
DictGet0(obj, key) == IF key \in DOMAIN obj THEN obj[key] ELSE JNum(0)

\* a message body on the wire: text json.loads rejects, a JSON value that is
\* no object, or a JSON object
EmptyObj == [k \in {} |-> JNull]
BadJson == [kind |-> "invalid", obj |-> EmptyObj]
NonObject == [kind |-> "nonobject", obj |-> EmptyObj]
JObject(o) == [kind |-> "object", obj |-> o]

(***************************************************************************)
(* model_handler.predict_condition                                         *)
(***************************************************************************)
\* the classifier is an opaque deterministic function of the feature frame:
\* absent, one that raises in predict(), or one that answers four indices
NoModel == [kind |-> "none", idx |-> <<0, 0, 0, 0>>]
RaisingModel == [kind |-> "raises", idx |-> <<0, 0, 0, 0>>]
ConstModel(p) == [kind |-> "const", idx |-> p]
\* a classifier that reads the frame: pH 0.0 is classified Too Low, any other
\* pH gets the indices idx
PhModel(p) == [kind |-> "byph", idx |-> p]

Predictions ==
    {<<a, b, c, d>> : a \in 0..(4 + ExtraIdx), b \in 0..(4 + ExtraIdx),
                      c \in 0..(2 + ExtraIdx), d \in 0..(2 + ExtraIdx)}

ModelPredict(model, frame) ==
    CASE model.kind = "raises" -> Raised(<<>>)
      [] model.kind = "byph" ->
            IF frame[1] = 0
            THEN Ok(<<0, model.idx[2], model.idx[3], model.idx[4]>>)
            ELSE Ok(model.idx)
      [] OTHER -> Ok(model.idx)

TableGet(table, i) == IF i \in DOMAIN table THEN table[i] ELSE "Unknown"

AllLabels(l) ==
    [ph_label |-> l, tds_label |-> l, ambient_label |-> l, light_label |-> l]

\* the conversion predict_condition applies to one feature field
FeatureFloat(x) == PyFloat(x)

\* the one-row frame predict_condition builds, in the order of its columns;
\* building it raises when one of the conversions raises
InputData(payload) ==
    LET raw == [i \in 1..Len(FEATURE_FIELDS) |->
                    FeatureFloat(DictGet0(payload, FEATURE_FIELDS[i]))]
    IN IF \E i \in 1..Len(FEATURE_FIELDS) : ~raw[i].ok THEN Raised(<<>>)
       ELSE Ok([i \in 1..Len(FEATURE_FIELDS) |-> raw[i].v])

\* the frame handed to model.predict; ok = FALSE when predict is never called
FrameHanded(payload, model) ==
    IF model.kind = "none" THEN Raised(<<>>) ELSE InputData(payload)

\* predict_condition without its test for a missing model: None.predict
\* raises and the except clause answers Error
predict_condition_NoNoneTest(payload, model) ==
    IF model.kind = "none" THEN Ok(AllLabels("Error"))
    ELSE IF ~InputData(payload).ok THEN Ok(AllLabels("Error"))
    ELSE LET prediction == ModelPredict(model, InputData(payload).v)
         IN IF ~prediction.ok THEN Ok(AllLabels("Error"))
            ELSE Ok([ph_label |-> TableGet(PH_LABELS, prediction.v[1]),
                     tds_label |-> TableGet(TDS_LABELS, prediction.v[2]),
                     ambient_label |-> TableGet(AMBIENT_LABELS, prediction.v[3]),
                     light_label |-> TableGet(LIGHT_LABELS, prediction.v[4])])

\* predict_condition without its except clause: the exception escapes
predict_condition_NoExcept(payload, model) ==
    IF model.kind = "none" THEN Ok(AllLabels("Unknown"))
    ELSE IF ~InputData(payload).ok THEN Raised(AllLabels("Error"))
    ELSE LET prediction == ModelPredict(model, InputData(payload).v)
         IN IF ~prediction.ok THEN Raised(AllLabels("Error"))
            ELSE Ok([ph_label |-> TableGet(PH_LABELS, prediction.v[1]),
                     tds_label |-> TableGet(TDS_LABELS, prediction.v[2]),
                     ambient_label |-> TableGet(AMBIENT_LABELS, prediction.v[3]),
                     light_label |-> TableGet(LIGHT_LABELS, prediction.v[4])])

\* predict_condition's answer, or the exception it lets escape: its except
\* clause turns every exception of the frame and of predict() into Error labels
predict_condition(payload, model) ==
    IF model.kind = "none" THEN Ok(AllLabels("Unknown"))
    ELSE IF ~InputData(payload).ok THEN Ok(AllLabels("Error"))
    ELSE LET prediction == ModelPredict(model, InputData(payload).v)
         IN IF ~prediction.ok THEN Ok(AllLabels("Error"))
            ELSE Ok([ph_label |-> TableGet(PH_LABELS, prediction.v[1]),
                     tds_label |-> TableGet(TDS_LABELS, prediction.v[2]),
                     ambient_label |-> TableGet(AMBIENT_LABELS, prediction.v[3]),
                     light_label |-> TableGet(LIGHT_LABELS, prediction.v[4])])

(***************************************************************************)
(* mqtt_handler.on_message: the status evaluation                          *)
(***************************************************************************)
\* the evaluation with Too High left out of the critical pH labels
StatusOutput_NoTooHigh(l) ==
    LET critical_ph == l.ph_label \in {"Too Low"}
        critical_tds == l.tds_label \in {"Too Low", "Too High"}
        critical_ambient == l.ambient_label = "Bad"
    IN IF critical_ph \/ critical_tds \/ critical_ambient
       THEN [status |-> "Critical", output |-> "ALERT_CRITICAL",
             icon |-> "alarm", color |-> "red"]
       ELSE IF l.ph_label = "Normal" /\ l.tds_label = "Normal"
               /\ l.ambient_label = "Ideal" /\ l.light_label = "Normal"
       THEN [status |-> "Optimal", output |-> "ALL_NORMAL",
             icon |-> "check", color |-> "green"]
       ELSE [status |-> "Warning", output |-> "NEEDS_ATTENTION",
             icon |-> "warning", color |-> "orange"]

\* the evaluation with the light label left out of the Optimal test
StatusOutput_NoLight(l) ==
    LET critical_ph == l.ph_label \in {"Too Low", "Too High"}
        critical_tds == l.tds_label \in {"Too Low", "Too High"}
        critical_ambient == l.ambient_label = "Bad"
    IN IF critical_ph \/ critical_tds \/ critical_ambient
       THEN [status |-> "Critical", output |-> "ALERT_CRITICAL",
             icon |-> "alarm", color |-> "red"]
       ELSE IF l.ph_label = "Normal" /\ l.tds_label = "Normal"
               /\ l.ambient_label = "Ideal"
       THEN [status |-> "Optimal", output |-> "ALL_NORMAL",
             icon |-> "check", color |-> "green"]
       ELSE [status |-> "Warning", output |-> "NEEDS_ATTENTION",
             icon |-> "warning", color |-> "orange"]

\* the Optimal test with a light label it cannot name taken as Normal
StatusOutput_UnknownLight(l) ==
    LET critical_ph == l.ph_label \in {"Too Low", "Too High"}
        critical_tds == l.tds_label \in {"Too Low", "Too High"}
        critical_ambient == l.ambient_label = "Bad"
    IN IF critical_ph \/ critical_tds \/ critical_ambient
       THEN [status |-> "Critical", output |-> "ALERT_CRITICAL",
             icon |-> "alarm", color |-> "red"]
       ELSE IF l.ph_label = "Normal" /\ l.tds_label = "Normal"
               /\ l.ambient_label = "Ideal"
               /\ l.light_label \in {"Normal", "Unknown"}
       THEN [status |-> "Optimal", output |-> "ALL_NORMAL",
             icon |-> "check", color |-> "green"]
       ELSE [status |-> "Warning", output |-> "NEEDS_ATTENTION",
             icon |-> "warning", color |-> "orange"]

StatusOutput(l) ==
    LET critical_ph == l.ph_label \in {"Too Low", "Too High"}
        critical_tds == l.tds_label \in {"Too Low", "Too High"}
        critical_ambient == l.ambient_label = "Bad"
    IN IF critical_ph \/ critical_tds \/ critical_ambient
       THEN [status |-> "Critical", output |-> "ALERT_CRITICAL",
             icon |-> "alarm", color |-> "red"]
       ELSE IF l.ph_label = "Normal" /\ l.tds_label = "Normal"
               /\ l.ambient_label = "Ideal" /\ l.light_label = "Normal"
       THEN [status |-> "Optimal", output |-> "ALL_NORMAL",
             icon |-> "check", color |-> "green"]
       ELSE [status |-> "Warning", output |-> "NEEDS_ATTENTION",
             icon |-> "warning", color |-> "orange"]

(***************************************************************************)
(* State                                                                   *)
(***************************************************************************)
VARIABLES
    model,              \* userdata['model'] of the ingestion client
    last_logged_time,   \* userdata['last_logged_time']
    log_interval,       \* userdata['log_interval']
    clock,              \* the wall clock, in seconds
    log_file,           \* prediction_log.csv
    latest_prediction,  \* latest_prediction.json
    latest_actuator,    \* latest_actuator.json
    output_pub,         \* what the last handled message published on part-iot/output
    ev,                 \* the last message on_message handled, and how it ended
    control_net,        \* commands in flight on part-iot/actuator/control
    status_net,         \* device echoes in flight on part-iot/actuator/status
    actuator_states,    \* the device's actuator_states (test.py)
    sent,               \* the last command a publisher transmitted
    last_auto,          \* the last rule-derived command and the labels it came from
    control_mode,       \* st.session_state['control_mode']
    manual,             \* st.session_state['manual_*']
    last_auto_control,  \* st.session_state.last_auto_control
    run_data,           \* data and actuator_data of the last run of the script
    flag_file,          \* FLAG_FILE: whether it exists, and the pid written in it
    sessions,           \* per dashboard process: its place in get_mqtt_client,
                        \* its running client loops, st.session_state.mqtt_initialized
    labelled            \* the last sample labelling.label_ph was applied to

ingestVars == <<model, last_logged_time, log_interval, log_file, latest_prediction,
                output_pub, ev>>
deviceVars == <<control_net, status_net, actuator_states>>
startVars == <<flag_file, sessions, labelled>>
dashVars == <<control_mode, manual, last_auto_control, run_data, startVars>>
vars == <<model, last_logged_time, log_interval, clock, log_file,
          latest_prediction, latest_actuator, output_pub, ev, control_net,
          status_net, actuator_states, sent, last_auto, control_mode, manual,
          last_auto_control, run_data, flag_file, sessions, labelled>>

MQTT_TOPIC_SENSOR == "part-iot/sensor/data"
MQTT_TOPIC_ACTUATOR == "part-iot/actuator/status"

SensorMsg(body) == [topic |-> MQTT_TOPIC_SENSOR, body |-> body]
StatusMsg(body) == [topic |-> MQTT_TOPIC_ACTUATOR, body |-> body]

AllOff == [k \in ActuatorSet |-> FALSE]
AllOn == [k \in ActuatorSet |-> TRUE]

(***************************************************************************)
(* What the environment refuses during one call: the publish, the append   *)
(* to the log, the write of a snapshot document                            *)
(***************************************************************************)
NoFault == [publish |-> "ok", log |-> "ok", save |-> "ok"]
PublishFault == [publish |-> "fail", log |-> "ok", save |-> "ok"]
LogFault == [publish |-> "ok", log |-> "fail", save |-> "ok"]
OpenFault == [publish |-> "ok", log |-> "ok", save |-> "open"]
WriteFault == [publish |-> "ok", log |-> "ok", save |-> "write"]
AllFault == [publish |-> "fail", log |-> "fail", save |-> "write"]
\* the log's first write fails after the file was created
LogCreated == [publish |-> "ok", log |-> "created", save |-> "ok"]
IoCases == {NoFault, PublishFault, LogFault, OpenFault, WriteFault, AllFault}

(***************************************************************************)
(* data_logger.py: the three files                                         *)
(***************************************************************************)
EmptyDoc == [k \in {} |-> 0]
\* a JSON document on disk: absent, unreadable (truncated or not JSON), ok, or
\* opened for writing and truncated with the dump of doc under way
AbsentFile == [state |-> "absent", doc |-> EmptyDoc]
CorruptFile == [state |-> "corrupt", doc |-> EmptyDoc]
FileWith(doc) == [state |-> "ok", doc |-> doc]
FileBeingWritten(doc) == [state |-> "writing", doc |-> doc]

\* open(path, 'w') and json.dump(data, f): the open may be refused, which
\* leaves the file as it was; the dump may fail after the open truncated it;
\* "begin" is the call seen from another process between its open and the
\* end of its dump
WriteJson(file, data, fault) ==
    CASE fault = "open" -> file
      [] fault = "write" -> CorruptFile
      [] fault = "begin" -> FileBeingWritten(data)
      [] OTHER -> FileWith(data)

\* the dump and the close of the with block complete
CloseJson(file) == IF file.state = "writing" THEN FileWith(file.doc) ELSE file

\* a save that a refused log write or a refused publish keeps from running
save_latest_prediction_Skipped(data, io) ==
    IF io.log = "fail" \/ io.publish = "fail" THEN latest_prediction
    ELSE WriteJson(latest_prediction, data, io.save)

save_latest_prediction(data, io) == WriteJson(latest_prediction, data, io.save)
save_latest_actuator(data, io) == WriteJson(latest_actuator, data, io.save)

\* os.path.exists and json.load of a document: the dict, or the exception
ReadJson(file) == IF file.state = "ok" THEN Ok(file.doc) ELSE Raised(EmptyDoc)

\* what a loader returns: a document, or None
NoData == [none |-> TRUE, doc |-> EmptyDoc]
Loaded(doc) == [none |-> FALSE, doc |-> doc]

\* a loader without the try: the exception of the read leaves the loader
LoadJson_NoTry(file) ==
    IF file.state = "absent" THEN Ok(NoData)
    ELSE IF ReadJson(file).ok THEN Ok(Loaded(ReadJson(file).v))
    ELSE Raised(NoData)

\* load_latest_prediction and load_latest_actuator: a file that is there is
\* opened and parsed, every exception is passed over, and None is returned
\* when nothing was
LoadJson(file) ==
    IF file.state = "absent" THEN Ok(NoData)
    ELSE IF ReadJson(file).ok THEN Ok(Loaded(ReadJson(file).v))
    ELSE Ok(NoData)

load_latest_prediction == LoadJson(latest_prediction)
load_latest_actuator == LoadJson(latest_actuator)

HeaderLine == [kind |-> "header"]
NoLog == [exists |-> FALSE, lines |-> <<>>]

\* log_prediction's row: the time of logging, the eight values, the four
\* labels and the status
DataRow(values, labels, status) ==
    [kind |-> "row", timestamp |-> clock, status |-> status] @@ values @@ labels

\* to_csv: append without a header to a file that exists, else create the
\* file with the header line; ok = FALSE is the return value False.  A
\* refused open leaves the log as it was ("fail"); a write that fails after
\* mode 'w' created the file leaves an empty file ("created")
log_prediction(values, labels, status, io) ==
    IF io.log = "fail" THEN Raised(log_file)
    ELSE IF io.log = "created"
    THEN IF log_file.exists THEN Raised(log_file)
         ELSE Raised([exists |-> TRUE, lines |-> <<>>])
    ELSE IF log_file.exists
    THEN Ok([log_file EXCEPT !.lines = Append(@, DataRow(values, labels, status))])
    ELSE Ok([exists |-> TRUE,
             lines |-> <<HeaderLine, DataRow(values, labels, status)>>])

(***************************************************************************)
(* mqtt_handler.on_message                                                 *)
(***************************************************************************)
NoFrame == Raised(<<>>)
NoPub == [sent |-> FALSE, msg |-> EmptyDoc]

\* the eight readings on_message extracts
SensorValues(payload) ==
    [f \in SensorFieldSet |-> safe_float(DictGet0(payload, f))]

\* an advisory whose code does not follow the status
OutputData_FixedAction(labels, so) ==
    [status |-> so.status, ph |-> labels.ph_label, tds |-> labels.tds_label,
     ambient |-> labels.ambient_label, light |-> labels.light_label,
     action |-> "NEEDS_ATTENTION"]

\* output_data, the advisory
OutputData(labels, so) ==
    [status |-> so.status, ph |-> labels.ph_label, tds |-> labels.tds_label,
     ambient |-> labels.ambient_label, light |-> labels.light_label,
     action |-> so.output]

\* client.publish of the advisory, inside its own try
PublishOutput(msg, io) ==
    IF io.publish = "fail" THEN NoPub ELSE [sent |-> TRUE, msg |-> msg]

\* the snapshot as an update of the stored one: a reading of 0 leaves the
\* stored value of its field
SnapshotData_Update(values, labels, so) ==
    [timestamp |-> clock, status |-> so.status, output |-> so.output,
     icon |-> so.icon, color |-> so.color]
    @@ [f \in DOMAIN values |->
           IF values[f] = 0 /\ latest_prediction.state = "ok"
           THEN latest_prediction.doc[f] ELSE values[f]]
    @@ labels

SnapshotData(values, labels, so) ==
    [timestamp |-> clock, status |-> so.status, output |-> so.output,
     icon |-> so.icon, color |-> so.color] @@ values @@ labels

\* the gate on the distance between the two times, whichever is the later
should_log_Distance ==
    \/ (clock - last_logged_time) >= log_interval
    \/ (last_logged_time - clock) >= log_interval

\* the gate closed at every reading
should_log_NoGate == clock >= last_logged_time

should_log == (clock - last_logged_time) >= log_interval

Handled(msg, io, frame, outcome) ==
    [topic |-> msg.topic, body |-> msg.body, io |-> io, frame |-> frame,
     outcome |-> outcome]

\* on_message without its except clause: the exception leaves the handler
Dropped_NoExcept(msg, io) ==
    /\ ev' = Handled(msg, io, NoFrame, "raised")
    /\ output_pub' = NoPub
    /\ UNCHANGED <<last_logged_time, log_file, latest_prediction, latest_actuator>>

\* an except clause that writes an empty snapshot for the message it drops
Dropped_EmptySnapshot(msg, io) ==
    /\ ev' = Handled(msg, io, NoFrame, "dropped")
    /\ output_pub' = NoPub
    /\ latest_prediction' = FileWith(EmptyDoc)
    /\ UNCHANGED <<last_logged_time, log_file, latest_actuator>>

\* the except clause of on_message: the message is dropped
Dropped(msg, io) ==
    /\ ev' = Handled(msg, io, NoFrame, "dropped")
    /\ output_pub' = NoPub
    /\ UNCHANGED <<last_logged_time, log_file, latest_prediction, latest_actuator>>

\* a status message that also passes the rate gate's time stamp
OnActuatorStatus_Stamps(msg, io) ==
    IF msg.body.kind = "object"
    THEN LET actuator_data ==
                 [k \in DOMAIN msg.body.obj \cup {"timestamp"} |->
                     IF k = "timestamp" THEN clock ELSE msg.body.obj[k]]
         IN /\ latest_actuator' = save_latest_actuator(actuator_data, io)
            /\ ev' = Handled(msg, io, NoFrame, "actuator")
            /\ output_pub' = NoPub
            /\ last_logged_time' = clock
            /\ UNCHANGED <<log_file, latest_prediction>>
    ELSE Dropped(msg, io)

\* a handler that drops every status message
OnActuatorStatus_Ignores(msg, io) == Dropped(msg, io)

\* a message on the actuator-status topic
OnActuatorStatus(msg, io) ==
    IF msg.body.kind = "object"
    THEN LET actuator_data ==
                 [k \in DOMAIN msg.body.obj \cup {"timestamp"} |->
                     IF k = "timestamp" THEN clock ELSE msg.body.obj[k]]
         IN /\ latest_actuator' = save_latest_actuator(actuator_data, io)
            /\ ev' = Handled(msg, io, NoFrame, "actuator")
            /\ output_pub' = NoPub
            /\ UNCHANGED <<last_logged_time, log_file, latest_prediction>>
    ELSE Dropped(msg, io)

\* a message on the sensor topic
OnSensorData(msg, io) ==
    IF msg.body.kind = "object" /\ predict_condition(msg.body.obj, model).ok
    THEN LET payload == msg.body.obj
             values == SensorValues(payload)
             labels == predict_condition(payload, model).v
             so == StatusOutput(labels)
         IN /\ output_pub' = PublishOutput(OutputData(labels, so), io)
            /\ IF should_log
               THEN /\ log_file' = log_prediction(values, labels, so.status, io).v
                    /\ last_logged_time' = clock
               ELSE UNCHANGED <<log_file, last_logged_time>>
            /\ latest_prediction' =
                   save_latest_prediction(SnapshotData(values, labels, so), io)
            /\ ev' = Handled(msg, io, FrameHanded(payload, model), "sensor")
            /\ UNCHANGED latest_actuator
    ELSE Dropped(msg, io)

on_message(msg, io) ==
    /\ IF msg.topic = MQTT_TOPIC_ACTUATOR
       THEN OnActuatorStatus(msg, io)
       ELSE OnSensorData(msg, io)
    /\ UNCHANGED <<model, log_interval, clock, sent, last_auto>>
    /\ UNCHANGED dashVars

(***************************************************************************)
(* actuator_controller.py: the command publisher                           *)
(***************************************************************************)
\* a bounded link: a message offered to a full link pushes the oldest one
\* out, which is lost (QoS 0)
Push(q, m) == IF Len(q) < MaxInFlight THEN Append(q, m) ELSE Append(Tail(q), m)

\* the record of one publisher call: who called, with which arguments, the
\* command built, the return value, for a delta call the snapshot file as it
\* was when the call read it, and for a rule command the time of the call
Call(kind, actuator, state, payload, result) ==
    [kind |-> kind, actuator |-> actuator, state |-> state, payload |-> payload,
     result |-> result,
     basis |-> IF kind = "delta" THEN latest_actuator ELSE AbsentFile,
     at |-> IF kind = "auto" THEN clock ELSE 0]

\* publish_mqtt_simple(payload_dict): one connect and one publish; True when
\* the transport reports the message published, False otherwise.  The call
\* is recorded in sent, the message goes on the control topic.
\* pub is what the transport does: "ok" published, "fail" reported as not
\* published, "refused" the connect raised, "late" published and the
\* disconnect raised
PubCases == {"ok", "fail", "refused", "late"}

\* the return value without the except clause: an exception leaves the call
PublishResult_NoExcept(pub) ==
    IF pub \in {"ok", "fail"} THEN pub ELSE "raised"

\* the return value: True as "ok", False as "fail"
PublishResult(pub) == IF pub = "ok" THEN "ok" ELSE "fail"

publish_mqtt_simple(kind, actuator, state, payload, pub) ==
    /\ sent' = Call(kind, actuator, state, payload, PublishResult(pub))
    /\ control_net' = IF pub \in {"ok", "late"} THEN Push(control_net, payload)
                      ELSE control_net

\* the call ended in an exception before anything was published
CallRaised(kind, actuator, state) ==
    /\ sent' = Call(kind, actuator, state, EmptyDoc, "raised")
    /\ UNCHANGED control_net

\* publish_actuator_command's payload started from the stored document
\* instead of the six defaults
DeltaPayload_OnlyStored(actuator_name, state) ==
    LET data == ReadJson(latest_actuator)
        keys == IF data.ok THEN DOMAIN data.v \cap ActuatorSet ELSE {}
    IN Ok([k \in keys \cup {actuator_name} |->
              IF k = actuator_name THEN state ELSE data.v[k]])

\* publish_actuator_command's payload with the file read outside the try: a
\* snapshot that does not load ends the call
DeltaPayload_NoTry(actuator_name, state) ==
    LET data == ReadJson(latest_actuator)
        loaded == [k \in ActuatorSet |->
                      IF k \in DOMAIN data.v THEN data.v[k] ELSE FALSE]
    IN IF data.ok
       THEN Ok([k \in ActuatorSet \cup {actuator_name} |->
                   IF k = actuator_name THEN state ELSE loaded[k]])
       ELSE Raised(EmptyDoc)

\* publish_actuator_command's payload without the load: the six defaults and
\* the named actuator
DeltaPayload_NoLoad(actuator_name, state) ==
    Ok([k \in ActuatorSet \cup {actuator_name} |->
           IF k = actuator_name THEN state ELSE FALSE])

\* publish_actuator_command's payload: the six defaults, overlaid with the
\* keys of the stored snapshot when it loads, and then the named actuator
DeltaPayload(actuator_name, state) ==
    LET data == ReadJson(latest_actuator)
        loaded == [k \in ActuatorSet |->
                      IF data.ok /\ k \in DOMAIN data.v THEN data.v[k] ELSE FALSE]
    IN Ok([k \in ActuatorSet \cup {actuator_name} |->
              IF k = actuator_name THEN state ELSE loaded[k]])

publish_actuator_command(actuator_name, state, pub) ==
    /\ IF DeltaPayload(actuator_name, state).ok
       THEN publish_mqtt_simple("delta", actuator_name, state,
                                DeltaPayload(actuator_name, state).v, pub)
       ELSE CallRaised("delta", actuator_name, state)
    /\ UNCHANGED <<ingestVars, clock, latest_actuator, status_net, actuator_states,
                   last_auto, dashVars>>

turn_all_on(pub) ==
    /\ publish_mqtt_simple("all_on", "", TRUE, AllOn, pub)
    /\ UNCHANGED <<ingestVars, clock, latest_actuator, status_net, actuator_states,
                   last_auto, dashVars>>

turn_all_off(pub) ==
    /\ publish_mqtt_simple("all_off", "", FALSE, AllOff, pub)
    /\ UNCHANGED <<ingestVars, clock, latest_actuator, status_net, actuator_states,
                   last_auto, dashVars>>

\* dict.get(key, default) on a prediction result
LabelGet(result, key, default) ==
    IF key \in DOMAIN result THEN result[key] ELSE default

\* apply_auto_control's command started from the stored actuator snapshot
\* instead of all off
AutoControlPayload_FromStored(prediction_result) ==
    LET ph_label == LabelGet(prediction_result, "ph_label", "Normal")
        tds_label == LabelGet(prediction_result, "tds_label", "Normal")
        ambient_label == LabelGet(prediction_result, "ambient_label", "Ideal")
        light_label == LabelGet(prediction_result, "light_label", "Normal")
        stored == [k \in ActuatorSet |->
                      IF latest_actuator.state = "ok" /\ k \in DOMAIN latest_actuator.doc
                      THEN latest_actuator.doc[k] ELSE FALSE]
    IN [pump_nutrition_AB |-> IF tds_label \in {"Too Low", "Low"} THEN TRUE
                              ELSE stored.pump_nutrition_AB,
        pump_water |-> IF tds_label \in {"Too High", "High"} THEN TRUE
                       ELSE stored.pump_water,
        pump_Ph_Up |-> IF ph_label \in {"Too Low", "Low"} THEN TRUE
                       ELSE stored.pump_Ph_Up,
        pump_Ph_Down |-> IF ph_label \in {"Too High", "High"} THEN TRUE
                         ELSE stored.pump_Ph_Down,
        fan |-> IF ambient_label \in {"Bad", "Slightly Off"} THEN TRUE
                ELSE stored.fan,
        led |-> IF light_label = "Too Dark" THEN TRUE ELSE stored.led]

\* apply_auto_control with the light rule as one more elif of the ambient
\* chain
AutoControlPayload_LedElif(prediction_result) ==
    LET ph_label == LabelGet(prediction_result, "ph_label", "Normal")
        tds_label == LabelGet(prediction_result, "tds_label", "Normal")
        ambient_label == LabelGet(prediction_result, "ambient_label", "Ideal")
        light_label == LabelGet(prediction_result, "light_label", "Normal")
    IN [pump_nutrition_AB |-> tds_label \in {"Too Low", "Low"},
        pump_water |-> tds_label \in {"Too High", "High"},
        pump_Ph_Up |-> ph_label \in {"Too Low", "Low"},
        pump_Ph_Down |-> ph_label \in {"Too High", "High"},
        fan |-> ambient_label \in {"Bad", "Slightly Off"},
        led |-> IF ambient_label \in {"Bad", "Slightly Off"} THEN FALSE
                ELSE light_label = "Too Dark"]

\* apply_auto_control with four separate ifs for pH, the last two testing
\* for a label other than Normal
AutoControlPayload_NotNormal(prediction_result) ==
    LET ph_label == LabelGet(prediction_result, "ph_label", "Normal")
        tds_label == LabelGet(prediction_result, "tds_label", "Normal")
        ambient_label == LabelGet(prediction_result, "ambient_label", "Ideal")
        light_label == LabelGet(prediction_result, "light_label", "Normal")
    IN [pump_nutrition_AB |-> tds_label \in {"Too Low", "Low"},
        pump_water |-> tds_label \in {"Too High", "High"},
        pump_Ph_Up |-> ph_label \in {"Too Low", "Low"},
        pump_Ph_Down |-> ph_label # "Normal",
        fan |-> ambient_label \in {"Bad", "Slightly Off"},
        led |-> light_label = "Too Dark"]

\* apply_auto_control's command: all off, then the four if/elif chains
AutoControlPayload(prediction_result) ==
    LET ph_label == LabelGet(prediction_result, "ph_label", "Normal")
        tds_label == LabelGet(prediction_result, "tds_label", "Normal")
        ambient_label == LabelGet(prediction_result, "ambient_label", "Ideal")
        light_label == LabelGet(prediction_result, "light_label", "Normal")
        ph_up == IF ph_label = "Too Low" THEN TRUE
                 ELSE IF ph_label = "Low" THEN TRUE ELSE FALSE
        ph_down == IF ph_label = "Too Low" THEN FALSE
                   ELSE IF ph_label = "Low" THEN FALSE
                   ELSE IF ph_label = "Too High" THEN TRUE
                   ELSE IF ph_label = "High" THEN TRUE ELSE FALSE
        nutrition == IF tds_label = "Too Low" THEN TRUE
                     ELSE IF tds_label = "Low" THEN TRUE ELSE FALSE
        water == IF tds_label = "Too Low" THEN FALSE
                 ELSE IF tds_label = "Low" THEN FALSE
                 ELSE IF tds_label = "Too High" THEN TRUE
                 ELSE IF tds_label = "High" THEN TRUE ELSE FALSE
        fan == IF ambient_label = "Bad" THEN TRUE
               ELSE IF ambient_label = "Slightly Off" THEN TRUE ELSE FALSE
        led == IF light_label = "Too Dark" THEN TRUE ELSE FALSE
    IN [pump_nutrition_AB |-> nutrition, pump_water |-> water,
        pump_Ph_Up |-> ph_up, pump_Ph_Down |-> ph_down, fan |-> fan, led |-> led]

LabelsOf(result, default) ==
    [ph_label |-> LabelGet(result, "ph_label", default),
     tds_label |-> LabelGet(result, "tds_label", default),
     ambient_label |-> LabelGet(result, "ambient_label", default),
     light_label |-> LabelGet(result, "light_label", default)]

\* a derivation of the rule command: where, when, from which labels, with
\* what result, and whether the labels were derived from before, at another
\* time
Derivation(by, labels, payload) ==
    [derived |-> TRUE, by |-> by, labels |-> labels, payload |-> payload,
     at |-> clock,
     again |-> last_auto.derived /\ last_auto.labels = labels
               /\ last_auto.at # clock]

\* apply_auto_control(prediction_result), called on the stored prediction
apply_auto_control(pub) ==
    /\ latest_prediction.state = "ok"
    /\ LET payload == AutoControlPayload(latest_prediction.doc)
       IN /\ last_auto' = Derivation("apply_auto_control",
                                     LabelsOf(latest_prediction.doc, "Normal"), payload)
          /\ publish_mqtt_simple("auto", "", FALSE, payload, pub)
    /\ UNCHANGED <<ingestVars, clock, latest_actuator, status_net, actuator_states,
                   dashVars>>

(***************************************************************************)
(* test.py: the simulated device                                           *)
(***************************************************************************)
\* on_message of the device: a batch command overwrites the keys it names;
\* the device then publishes its states on the status topic
DeviceOnMessage ==
    /\ control_net # <<>>
    /\ LET command == Head(control_net)
           updated == [k \in ActuatorSet |->
                          IF k \in DOMAIN command THEN command[k]
                          ELSE actuator_states[k]]
       IN /\ actuator_states' = updated
          /\ status_net' = Push(status_net, updated)
    /\ control_net' = Tail(control_net)
    /\ UNCHANGED <<ingestVars, clock, latest_actuator, sent, last_auto, dashVars>>

\* the device's main loop publishes its states every cycle
DeviceReport ==
    /\ Len(status_net) < MaxInFlight
    /\ status_net' = Push(status_net, actuator_states)
    /\ UNCHANGED <<ingestVars, clock, latest_actuator, control_net, actuator_states,
                   sent, last_auto, dashVars>>

\* the broker delivers the oldest status message to the ingestion client
DeliverStatus(io) ==
    /\ status_net # <<>>
    /\ on_message(StatusMsg(JObject(Head(status_net))), io)
    /\ status_net' = Tail(status_net)
    /\ UNCHANGED <<control_net, actuator_states>>

(***************************************************************************)
(* dashboard.py: the control tab of one session; one action is one run of  *)
(* the script                                                              *)
(***************************************************************************)
AUTO_APPLY_SECONDS == 5

\* the inline rules with pump_Ph_Down on Too High only
Predicted_NoHigh(data) ==
    LET ph_label == LabelGet(data, "ph_label", "-")
        tds_label == LabelGet(data, "tds_label", "-")
        ambient_label == LabelGet(data, "ambient_label", "-")
        light_label == LabelGet(data, "light_label", "-")
    IN [pump_nutrition_AB |-> tds_label \in {"Too Low", "Low"},
        pump_water |-> tds_label \in {"Too High", "High"},
        pump_Ph_Up |-> ph_label \in {"Too Low", "Low"},
        pump_Ph_Down |-> ph_label \in {"Too High"},
        fan |-> ambient_label \in {"Bad", "Slightly Off"},
        led |-> light_label = "Too Dark"]

\* the inline rules of the Auto Control branch
Predicted(data) ==
    LET ph_label == LabelGet(data, "ph_label", "-")
        tds_label == LabelGet(data, "tds_label", "-")
        ambient_label == LabelGet(data, "ambient_label", "-")
        light_label == LabelGet(data, "light_label", "-")
    IN [pump_nutrition_AB |-> tds_label \in {"Too Low", "Low"},
        pump_water |-> tds_label \in {"Too High", "High"},
        pump_Ph_Up |-> ph_label \in {"Too Low", "Low"},
        pump_Ph_Down |-> ph_label \in {"Too High", "High"},
        fan |-> ambient_label \in {"Bad", "Slightly Off"},
        led |-> light_label = "Too Dark"]

\* the loads at the top of the main content: the run ends there when a
\* loader raises
LoadLatest ==
    [raised |-> ~load_latest_prediction.ok \/ ~load_latest_actuator.ok,
     data |-> load_latest_prediction.v,
     actuator_data |-> load_latest_actuator.v]

NothingLoaded == [raised |-> FALSE, data |-> NoData, actuator_data |-> NoData]

\* what tab 1 shows in place of the readings and of the actuator states
WaitingForSensor == run_data.data.none \/ run_data.data.doc = EmptyDoc
WaitingForActuator ==
    run_data.actuator_data.none \/ run_data.actuator_data.doc = EmptyDoc

\* APPLY MODE CHANGE in the sidebar
ApplyModeChange(selected_mode) ==
    /\ selected_mode # control_mode
    /\ control_mode' = selected_mode
    /\ UNCHANGED <<ingestVars, clock, latest_actuator, deviceVars, sent, last_auto,
                   manual, last_auto_control, run_data, startVars>>

\* the auto-apply that never notes the time of its publish
AutoApply_NoStamp(pub) ==
    /\ control_mode = "Auto Control"
    /\ latest_prediction.state = "ok"
    /\ LET predicted == Predicted(latest_prediction.doc)
       IN /\ last_auto' = Derivation("dashboard",
                                     LabelsOf(latest_prediction.doc, "-"), predicted)
          /\ IF clock - last_auto_control >= AUTO_APPLY_SECONDS
             THEN /\ publish_mqtt_simple("auto", "", FALSE, predicted, pub)
                  /\ UNCHANGED last_auto_control
             ELSE UNCHANGED <<sent, control_net, last_auto_control>>
    /\ run_data' = LoadLatest
    /\ UNCHANGED <<ingestVars, clock, latest_actuator, status_net, actuator_states,
                   control_mode, manual, startVars>>

\* the auto-apply of a run in whatever mode is active
AutoApply_AnyMode(pub) ==
    /\ latest_prediction.state = "ok"
    /\ LET predicted == Predicted(latest_prediction.doc)
       IN /\ last_auto' = Derivation("dashboard",
                                     LabelsOf(latest_prediction.doc, "-"), predicted)
          /\ IF clock - last_auto_control >= AUTO_APPLY_SECONDS
             THEN /\ publish_mqtt_simple("auto", "", FALSE, predicted, pub)
                  /\ last_auto_control' = IF pub = "ok" THEN clock
                                          ELSE last_auto_control
             ELSE UNCHANGED <<sent, control_net, last_auto_control>>
    /\ run_data' = LoadLatest
    /\ UNCHANGED <<ingestVars, clock, latest_actuator, status_net, actuator_states,
                   control_mode, manual, startVars>>

\* a run in Auto Control with a prediction: the command is derived, and
\* published when five seconds have passed since the last applied one
AutoApply(pub) ==
    /\ control_mode = "Auto Control"
    /\ latest_prediction.state = "ok"
    /\ LET predicted == Predicted(latest_prediction.doc)
       IN /\ last_auto' = Derivation("dashboard",
                                     LabelsOf(latest_prediction.doc, "-"), predicted)
          /\ IF clock - last_auto_control >= AUTO_APPLY_SECONDS
             THEN /\ publish_mqtt_simple("auto", "", FALSE, predicted, pub)
                  /\ last_auto_control' = IF pub = "ok" THEN clock
                                          ELSE last_auto_control
             ELSE UNCHANGED <<sent, control_net, last_auto_control>>
    /\ run_data' = LoadLatest
    /\ UNCHANGED <<ingestVars, clock, latest_actuator, status_net, actuator_states,
                   control_mode, manual, startVars>>

\* a run in which APPLY NOW was pressed: the gated publish of the run comes
\* first, the button's publish second
ApplyNow(pub) ==
    /\ control_mode = "Auto Control"
    /\ latest_prediction.state = "ok"
    /\ LET predicted == Predicted(latest_prediction.doc)
           gated == IF clock - last_auto_control >= AUTO_APPLY_SECONDS /\ pub = "ok"
                    THEN Push(control_net, predicted) ELSE control_net
       IN /\ last_auto' = Derivation("dashboard",
                                     LabelsOf(latest_prediction.doc, "-"), predicted)
          /\ sent' = Call("auto", "", FALSE, predicted, pub)
          /\ control_net' = IF pub = "ok" THEN Push(gated, predicted) ELSE gated
          /\ last_auto_control' = IF pub = "ok" THEN clock ELSE last_auto_control
    /\ run_data' = LoadLatest
    /\ UNCHANGED <<ingestVars, clock, latest_actuator, status_net, actuator_states,
                   control_mode, manual, startVars>>

\* a run in which Switch to Manual Mode was pressed: the gated publish of the
\* run comes first, the button's change of mode second
SwitchToManual(pub) ==
    /\ control_mode = "Auto Control"
    /\ latest_prediction.state = "ok"
    /\ LET predicted == Predicted(latest_prediction.doc)
       IN /\ last_auto' = Derivation("dashboard",
                                     LabelsOf(latest_prediction.doc, "-"), predicted)
          /\ IF clock - last_auto_control >= AUTO_APPLY_SECONDS
             THEN /\ publish_mqtt_simple("auto", "", FALSE, predicted, pub)
                  /\ last_auto_control' = IF pub = "ok" THEN clock
                                          ELSE last_auto_control
             ELSE UNCHANGED <<sent, control_net, last_auto_control>>
    /\ control_mode' = "Manual Control"
    /\ run_data' = LoadLatest
    /\ UNCHANGED <<ingestVars, clock, latest_actuator, status_net, actuator_states,
                   manual, startVars>>

\* one of the six toggle buttons of Manual Control
ManualToggle(name, pub) ==
    /\ control_mode = "Manual Control"
    /\ manual' = [manual EXCEPT ![name] = ~manual[name]]
    /\ publish_mqtt_simple("toggle", name, ~manual[name],
                           [manual EXCEPT ![name] = ~manual[name]], pub)
    /\ run_data' = LoadLatest
    /\ UNCHANGED <<ingestVars, clock, latest_actuator, status_net, actuator_states,
                   last_auto, control_mode, last_auto_control, startVars>>

\* ALL ON in Manual Control: the manual states follow when the publish succeeds
AllOnButton(pub) ==
    /\ control_mode = "Manual Control"
    /\ publish_mqtt_simple("all_on", "", TRUE, AllOn, pub)
    /\ manual' = IF pub = "ok" THEN AllOn ELSE manual
    /\ run_data' = LoadLatest
    /\ UNCHANGED <<ingestVars, clock, latest_actuator, status_net, actuator_states,
                   last_auto, control_mode, last_auto_control, startVars>>

\* ALL OFF that also stores its command as the actuator snapshot
AllOffButton_Stores(pub) ==
    /\ control_mode = "Manual Control"
    /\ publish_mqtt_simple("all_off", "", FALSE, AllOff, pub)
    /\ manual' = IF pub = "ok" THEN AllOff ELSE manual
    /\ run_data' = LoadLatest
    /\ latest_actuator' = IF pub = "ok" THEN FileWith(AllOff) ELSE latest_actuator
    /\ UNCHANGED <<ingestVars, clock, status_net, actuator_states,
                   last_auto, control_mode, last_auto_control, startVars>>

\* ALL OFF in Manual Control
AllOffButton(pub) ==
    /\ control_mode = "Manual Control"
    /\ publish_mqtt_simple("all_off", "", FALSE, AllOff, pub)
    /\ manual' = IF pub = "ok" THEN AllOff ELSE manual
    /\ run_data' = LoadLatest
    /\ UNCHANGED <<ingestVars, clock, latest_actuator, status_net, actuator_states,
                   last_auto, control_mode, last_auto_control, startVars>>

\* a run of the script with no button pressed, outside the auto-apply: the
\* documents are loaded and shown, or the waiting state is
ViewRun ==
    /\ control_mode # "Auto Control" \/ load_latest_prediction.v.none
    /\ run_data' = LoadLatest
    /\ UNCHANGED <<ingestVars, clock, latest_actuator, deviceVars, sent, last_auto,
                   control_mode, manual, last_auto_control, startVars>>

\* the wall clock advances
Tick ==
    /\ clock < StartClock + MaxTicks
    /\ clock' = clock + 1
    /\ UNCHANGED <<ingestVars, latest_actuator, deviceVars, sent, last_auto, dashVars>>

(***************************************************************************)
(* mqtt_handler.get_mqtt_client and dashboard.cleanup: the flag file and    *)
(* the ingestion clients of several dashboard processes                    *)
(***************************************************************************)
Sessions == 1..NumSessions

NoFlag == [exists |-> FALSE, pid |-> 0]
FlagOf(p) == [exists |-> TRUE, pid |-> p]

FreshSession == [at |-> "idle", clients |-> 0, mqtt_initialized |-> FALSE]

startFrame == <<ingestVars, clock, latest_actuator, deviceVars, sent, last_auto,
                control_mode, manual, last_auto_control, run_data, labelled>>

\* a run of the script reaches get_mqtt_client while mqtt_initialized is
\* false: with the flag file there the call returns None, else it goes on to
\* create a client
StartCheck(p) ==
    /\ sessions[p].at = "idle" /\ ~sessions[p].mqtt_initialized
    /\ sessions' = [sessions EXCEPT ![p].at =
                       IF flag_file.exists THEN "idle" ELSE "creating"]
    /\ UNCHANGED <<flag_file, startFrame>>

\* client.connect and client.loop_start: a refused connect returns None,
\* else the client's loop runs
StartConnect(p, connected) ==
    /\ sessions[p].at = "creating"
    /\ sessions[p].clients < MaxClients
    /\ sessions' = IF connected
                   THEN [sessions EXCEPT ![p].at = "started",
                                         ![p].clients = @ + 1]
                   ELSE [sessions EXCEPT ![p].at = "idle"]
    /\ UNCHANGED <<flag_file, startFrame>>

\* the write of the pid into the flag file; when it is refused the call
\* returns None with the loop running
StartWriteFlag(p, written) ==
    /\ sessions[p].at = "started"
    /\ IF written
       THEN /\ flag_file' = FlagOf(p)
            /\ sessions' = [sessions EXCEPT ![p].at = "idle",
                                            ![p].mqtt_initialized = TRUE]
       ELSE /\ sessions' = [sessions EXCEPT ![p].at = "idle"]
            /\ UNCHANGED flag_file
    /\ UNCHANGED startFrame

\* the process ends: cleanup removes the flag file, whoever wrote it, and the
\* client loops of the process end with it
Exit(p) ==
    /\ flag_file' = NoFlag
    /\ sessions' = [sessions EXCEPT ![p] = FreshSession]
    /\ UNCHANGED startFrame

\* the process is killed: no cleanup runs
Crash(p) ==
    /\ sessions' = [sessions EXCEPT ![p] = FreshSession]
    /\ UNCHANGED <<flag_file, startFrame>>

(***************************************************************************)
(* labeling.py: the labels of the training data.  A pH is kept in          *)
(* hundredths, a temperature in degrees                                    *)
(***************************************************************************)
\* the range of pH values labelled, in hundredths, and the amounts
\* np.random.uniform(0.1, 0.2) takes off a pH above 28 degrees
PhMin == 500
PhMax == 750
Adjustments == {10, 15, 20}

label_ph(ph_value, water_temp, adjustment) ==
    LET ph_adjusted == IF water_temp > 28 THEN ph_value - adjustment
                       ELSE ph_value
    IN IF ph_adjusted < 550 THEN 0
       ELSE IF 550 <= ph_adjusted /\ ph_adjusted < 600 THEN 1
       ELSE IF 600 <= ph_adjusted /\ ph_adjusted <= 680 THEN 2
       ELSE IF 690 <= ph_adjusted /\ ph_adjusted <= 720 THEN 3
       ELSE 4

NoSample == [labelled |-> FALSE, ph_value |-> 0, water_temp |-> 0, label |-> 0]

\* one call of label_ph
LabelPh(ph_value, water_temp, adjustment) ==
    /\ labelled' = [labelled |-> TRUE, ph_value |-> ph_value,
                    water_temp |-> water_temp,
                    label |-> label_ph(ph_value, water_temp, adjustment)]
    /\ UNCHANGED <<ingestVars, clock, latest_actuator, deviceVars, sent, last_auto,
                   control_mode, manual, last_auto_control, run_data, flag_file,
                   sessions>>

(***************************************************************************)
(* Inputs                                                                  *)
(***************************************************************************)
BaseReading ==
    [ph |-> JNum(6), tds |-> JNum(1200), water_flow |-> JNum(9),
     air_humidity |-> JNum(55), air_temperature |-> JNum(25),
     ldr_value |-> JNum(2000), water_temperature |-> JNum(24),
     water_level |-> JNum(12)]

\* every classifier: none loaded, one that raises, and one for each answer
AllModels == {NoModel, RaisingModel} \cup {ConstModel(p) : p \in Predictions}

NoEvent == Handled([topic |-> "", body |-> BadJson], NoFault, NoFrame, "none")
NoSent == [kind |-> "none", actuator |-> "", state |-> FALSE, payload |-> EmptyDoc,
           result |-> "none", basis |-> AbsentFile, at |-> 0]
NoAuto == [derived |-> FALSE, by |-> "", labels |-> AllLabels(""),
           payload |-> EmptyDoc,
           at |-> 0,
           again |-> FALSE]

\* the files not yet written and a fresh session, with the userdata of
\* get_mqtt_client
InitState(models, intervals) ==
    /\ model \in models
    /\ log_interval \in intervals
    /\ last_logged_time = 0
    /\ clock = StartClock
    /\ log_file = NoLog
    /\ latest_prediction = AbsentFile
    /\ latest_actuator = AbsentFile
    /\ output_pub = NoPub
    /\ ev = NoEvent
    /\ control_net = <<>>
    /\ status_net = <<>>
    /\ actuator_states = AllOff
    /\ sent = NoSent
    /\ last_auto = NoAuto
    /\ control_mode = "Monitor Only"
    /\ manual = AllOff
    /\ last_auto_control = 0
    /\ run_data = NothingLoaded
    /\ labelled = NoSample

\* the first dashboard process has started the one ingestion client
InitOf(models, intervals) ==
    /\ InitState(models, intervals)
    /\ flag_file = FlagOf(1)
    /\ sessions = [p \in Sessions |->
                      IF p = 1 THEN [FreshSession EXCEPT !.clients = 1,
                                                         !.mqtt_initialized = TRUE]
                      ELSE FreshSession]

\* the dashboard passes its log interval, which it sets to the default
InitWith(models) == InitOf(models, {DEFAULT_LOG_INTERVAL_SECONDS})

(***************************************************************************)
(* Spec: the ingestion handler under every classifier                      *)
(***************************************************************************)
Init == InitWith(AllModels)

IngestMessages ==
    {SensorMsg(JObject(BaseReading)), SensorMsg(BadJson), SensorMsg(NonObject),
     StatusMsg(JObject(AllOff)), StatusMsg(JObject([k \in {"led"} |-> TRUE])),
     StatusMsg(BadJson)}

Receive ==
    /\ \E msg \in IngestMessages : on_message(msg, NoFault)
    /\ UNCHANGED deviceVars

Next == Receive

Spec == Init /\ [][Next]_vars

(***************************************************************************)
(* SpecFaults: the ingestion handler under defective payloads and refused  *)
(* I/O, with a few classifiers                                             *)
(***************************************************************************)
\* the answer Normal, Normal, Ideal, Normal
IdealIdx == <<2, 2, 2, 1>>
FaultModels == {NoModel, RaisingModel, ConstModel(IdealIdx), PhModel(IdealIdx)}

DefectFields == {"ph", "water_temperature", "water_level"}
\* the reading with one field left out, or replaced by a value that is no number
Without(f) == [k \in SensorFieldSet \ {f} |-> BaseReading[k]]
Replaced(f, x) == [BaseReading EXCEPT ![f] = x]
DefectReadings ==
    {Without(f) : f \in DefectFields}
    \cup UNION {{Replaced(f, JStr), Replaced(f, JNull),
                 Replaced(f, JNumStr(BaseReading[f].v))} : f \in DefectFields}

FaultMessages ==
    {SensorMsg(JObject(r)) : r \in {BaseReading} \cup DefectReadings}
    \cup {SensorMsg(BadJson), SensorMsg(NonObject)}

InitFaults == InitWith(FaultModels)

ReceiveFaulty ==
    /\ \E msg \in FaultMessages, io \in IoCases : on_message(msg, io)
    /\ UNCHANGED deviceVars

NextFaults == ReceiveFaulty

SpecFaults == InitFaults /\ [][NextFaults]_vars

(***************************************************************************)
(* SpecRules: the two derivations of the rule command, under every         *)
(* classifier                                                              *)
(***************************************************************************)
ReceiveReading ==
    /\ on_message(SensorMsg(JObject(BaseReading)), NoFault)
    /\ UNCHANGED deviceVars

EnterAutoControl == ApplyModeChange("Auto Control")

RulesAutoApply == \E pub \in {"ok", "fail"} : AutoApply(pub)

RulesApplyAutoControl == \E pub \in {"ok", "fail"} : apply_auto_control(pub)

NextRules ==
    \/ ReceiveReading
    \/ EnterAutoControl
    \/ RulesAutoApply
    \/ RulesApplyAutoControl

SpecRules == Init /\ [][NextRules]_vars

(***************************************************************************)
(* SpecAuto: the derivations of the rule command while the actuator        *)
(* snapshot, the manual states, the published command and the clock change *)
(***************************************************************************)
\* the actuators the operator drives one at a time
Driven == {"fan", "led"}

\* a classifier with the ideal answer, and one with Low, High, Slightly Off
\* and a light class outside the table
AutoModels == {ConstModel(IdealIdx), ConstModel(<<1, 3, 1, 5>>)}
InitAuto == InitWith(AutoModels)

\* the first reading of the session
AutoFirstReading ==
    /\ latest_prediction.state = "absent"
    /\ ReceiveReading

AutoModeChange ==
    \E selected_mode \in {"Monitor Only", "Manual Control", "Auto Control"} :
        ApplyModeChange(selected_mode)

AutoAutoApply == AutoApply("ok")

AutoApplyNow == ApplyNow("ok")

AutoApplyAutoControl == apply_auto_control("ok")

AutoManualToggle == \E name \in Driven : ManualToggle(name, "ok")

\* the device reports every actuator on
AutoStatusEcho ==
    /\ on_message(StatusMsg(JObject(AllOn)), NoFault)
    /\ UNCHANGED deviceVars

NextAuto ==
    \/ AutoFirstReading
    \/ Tick
    \/ AutoModeChange
    \/ AutoAutoApply
    \/ AutoApplyNow
    \/ AutoApplyAutoControl
    \/ AutoManualToggle
    \/ AutoStatusEcho

SpecAuto == InitAuto /\ [][NextAuto]_vars

(***************************************************************************)
(* SpecCtl: the single-actuator publisher beside the device, its status    *)
(* echo and the ingestion handler that stores the echo                     *)
(***************************************************************************)
InitCtl == InitWith({NoModel})

CtlTurnAllOff == turn_all_off("ok")

CtlPublishActuatorCommand ==
    \E actuator_name \in Driven, state \in BOOLEAN, pub \in {"ok", "fail"} :
        publish_actuator_command(actuator_name, state, pub)

\* the ingestion handler stores an echo; the write of the file may be refused
\* or may fail half way
CtlDeliverStatus == \E io \in {NoFault, OpenFault, WriteFault} : DeliverStatus(io)

\* another publisher on the status topic names one actuator only
CtlPartialStatus ==
    /\ on_message(StatusMsg(JObject([k \in {"led"} |-> TRUE])), NoFault)
    /\ UNCHANGED deviceVars

NextCtl ==
    \/ CtlTurnAllOff
    \/ CtlPublishActuatorCommand
    \/ DeviceOnMessage
    \/ DeviceReport
    \/ CtlDeliverStatus
    \/ CtlPartialStatus

SpecCtl == InitCtl /\ [][NextCtl]_vars

(***************************************************************************)
(* SpecWire: every publisher of the control topic                          *)
(***************************************************************************)
WireModels == {ConstModel(<<1, 3, 1, 5>>)}
InitWire == InitWith(WireModels)

WireAllOnButton == AllOnButton("ok")

WireAllOffButton == AllOffButton("ok")

WirePublishActuatorCommand ==
    \E actuator_name \in Driven, state \in BOOLEAN :
        publish_actuator_command(actuator_name, state, "ok")

NextWire ==
    \/ AutoFirstReading
    \/ AutoModeChange
    \/ AutoAutoApply
    \/ AutoApplyAutoControl
    \/ AutoManualToggle
    \/ WireAllOnButton
    \/ WireAllOffButton
    \/ WirePublishActuatorCommand
    \/ CtlPartialStatus
    \/ ViewRun

SpecWire == InitWire /\ [][NextWire]_vars

(***************************************************************************)
(* SpecPaced: one ingestion client, a sensor message published every       *)
(* second and handled, in order, within MaxLag seconds of its publication  *)
(***************************************************************************)
PacedModels == {NoModel, ConstModel(IdealIdx)}
InitPaced == InitWith(PacedModels)

\* the reading published at second t; the handler ignores the extra field
PacedReading(t) ==
    [f \in SensorFieldSet \cup {"published"} |->
        IF f = "published" THEN JNum(t) ELSE BaseReading[f]]

\* the second at which the next message to handle was published
NextPublished ==
    IF ev.outcome = "sensor" THEN ev.body.obj["published"].v + 1 ELSE StartClock

\* on_message runs on the next message; time.time() is read when it runs
PacedArrive ==
    /\ NextPublished <= clock
    /\ NextPublished <= StartClock + PacedSeconds
    /\ on_message(SensorMsg(JObject(PacedReading(NextPublished))), NoFault)
    /\ UNCHANGED deviceVars

PacedSecond ==
    /\ clock < NextPublished + MaxLag
    /\ clock < StartClock + PacedSeconds
    /\ clock' = clock + 1
    /\ UNCHANGED <<ingestVars, latest_actuator, deviceVars, sent, last_auto, dashVars>>

NextPaced ==
    \/ PacedArrive
    \/ PacedSecond

SpecPaced == InitPaced /\ [][NextPaced]_vars

(***************************************************************************)
(* SpecGate: the rate gate under messages at any rate, a wall clock that   *)
(* is set forwards and backwards, and restarts of the ingestion client     *)
(***************************************************************************)
GateIntervals == {0, 2, DEFAULT_LOG_INTERVAL_SECONDS}
InitGate == InitOf({NoModel}, GateIntervals)

GateReceive ==
    /\ Len(log_file.lines) <= MaxRows
    /\ on_message(SensorMsg(JObject(BaseReading)), NoFault)
    /\ UNCHANGED deviceVars

GateClockForward ==
    /\ clock < StartClock + GateSeconds
    /\ clock' = clock + 1
    /\ UNCHANGED <<ingestVars, latest_actuator, deviceVars, sent, last_auto, dashVars>>

GateClockBackward ==
    /\ clock > StartClock
    /\ clock' = clock - 1
    /\ UNCHANGED <<ingestVars, latest_actuator, deviceVars, sent, last_auto, dashVars>>

\* the session ends, cleanup removes the flag file, and the next session's
\* get_mqtt_client makes a client with fresh userdata; the files stay
GateRestart ==
    /\ last_logged_time # 0
    /\ last_logged_time' = 0
    /\ UNCHANGED <<model, log_interval, clock, log_file, latest_prediction,
                   latest_actuator, output_pub, ev, deviceVars, sent, last_auto,
                   dashVars>>

NextGate ==
    \/ GateReceive
    \/ GateClockForward
    \/ GateClockBackward
    \/ GateRestart

SpecGate == InitGate /\ [][NextGate]_vars

(***************************************************************************)
(* SpecRace: one message handled statement by statement while the          *)
(* dashboard script runs beside it.  The io record of ev holds the         *)
(* handler's position: "due" is a statement not yet reached, "begin" a     *)
(* document opened and not yet closed                                      *)
(***************************************************************************)
RaceModels == {NoModel, ConstModel(IdealIdx)}

RaceMessages ==
    {SensorMsg(JObject(BaseReading)), SensorMsg(JObject(Without("ph"))),
     SensorMsg(BadJson), StatusMsg(JObject(AllOn)), StatusMsg(BadJson)}

InitRace == InitWith(RaceModels)

\* the handler after the publish of the advisory, and after the parse of a
\* status message
AfterPublish(pub) == [publish |-> pub, log |-> "due", save |-> "due"]
AfterParse == [publish |-> "none", log |-> "none", save |-> "due"]

\* the handler is inside a message: paho calls on_message for one message at
\* a time
Busy ==
    /\ ev.outcome \in {"sensor", "actuator"}
    /\ ev.io.log = "due" \/ ev.io.save \in {"due", "begin"}

\* the snapshot of the message being handled
RaceSnapshotData ==
    LET payload == ev.body.obj
        labels == predict_condition(payload, model).v
    IN SnapshotData(SensorValues(payload), labels, StatusOutput(labels))

\* the status document of the message being handled
RaceActuatorData ==
    [k \in DOMAIN ev.body.obj \cup {"timestamp"} |->
        IF k = "timestamp" THEN clock ELSE ev.body.obj[k]]

\* on_message up to the publish of the advisory; a status message up to its
\* time stamp
RaceBegin ==
    /\ ~Busy
    /\ \E msg \in RaceMessages, pub \in {"ok", "fail"} :
          IF msg.body.kind # "object"
          THEN Dropped(msg, NoFault)
          ELSE IF msg.topic = MQTT_TOPIC_ACTUATOR
          THEN /\ ev' = Handled(msg, AfterParse, NoFrame, "actuator")
               /\ output_pub' = NoPub
               /\ UNCHANGED <<last_logged_time, log_file, latest_prediction,
                              latest_actuator>>
          ELSE LET labels == predict_condition(msg.body.obj, model).v
               IN /\ output_pub' =
                         PublishOutput(OutputData(labels, StatusOutput(labels)),
                                       AfterPublish(pub))
                  /\ ev' = Handled(msg, AfterPublish(pub),
                                   FrameHanded(msg.body.obj, model), "sensor")
                  /\ UNCHANGED <<last_logged_time, log_file, latest_prediction,
                                 latest_actuator>>
    /\ UNCHANGED <<model, log_interval, clock, deviceVars, sent, last_auto, dashVars>>

\* the rate gate and the append to the log
RaceGate ==
    /\ ev.outcome = "sensor" /\ ev.io.log = "due"
    /\ LET payload == ev.body.obj
           labels == predict_condition(payload, model).v
       IN IF should_log
          THEN /\ log_file' = log_prediction(SensorValues(payload), labels,
                                             StatusOutput(labels).status, NoFault).v
               /\ last_logged_time' = clock
          ELSE UNCHANGED <<log_file, last_logged_time>>
    /\ ev' = [ev EXCEPT !.io.log = "ok"]
    /\ UNCHANGED <<model, log_interval, clock, latest_prediction, latest_actuator,
                   output_pub, deviceVars, sent, last_auto, dashVars>>

\* the save placed before the rate gate
SaveDue_BeforeGate ==
    /\ ev.outcome \in {"sensor", "actuator"}
    /\ ev.io.save = "due"

\* the handler has reached the save of its document
SaveDue ==
    /\ ev.outcome \in {"sensor", "actuator"}
    /\ ev.io.log # "due"
    /\ ev.io.save = "due"

\* open(path, 'w') of the save: the document on disk is truncated, and the
\* dump is under way or fails
RaceOpen ==
    /\ SaveDue
    /\ \E fault \in {"begin", "write"} :
          /\ IF ev.outcome = "sensor"
             THEN /\ latest_prediction' =
                         save_latest_prediction(RaceSnapshotData,
                                                [ev.io EXCEPT !.save = fault])
                  /\ UNCHANGED latest_actuator
             ELSE /\ latest_actuator' =
                         save_latest_actuator(RaceActuatorData,
                                              [ev.io EXCEPT !.save = fault])
                  /\ UNCHANGED latest_prediction
          /\ ev' = [ev EXCEPT !.io.save = fault]
    /\ UNCHANGED <<model, last_logged_time, log_interval, clock, log_file,
                   output_pub, deviceVars, sent, last_auto, dashVars>>

\* the end of the with block of the save
RaceClose ==
    /\ ev.outcome \in {"sensor", "actuator"} /\ ev.io.save = "begin"
    /\ IF ev.outcome = "sensor"
       THEN /\ latest_prediction' = CloseJson(latest_prediction)
            /\ UNCHANGED latest_actuator
       ELSE /\ latest_actuator' = CloseJson(latest_actuator)
            /\ UNCHANGED latest_prediction
    /\ ev' = [ev EXCEPT !.io.save = "ok"]
    /\ UNCHANGED <<model, last_logged_time, log_interval, clock, log_file,
                   output_pub, deviceVars, sent, last_auto, dashVars>>

NextRace ==
    \/ RaceBegin
    \/ RaceGate
    \/ RaceOpen
    \/ RaceClose
    \/ ViewRun
    \/ Tick

SpecRace == InitRace /\ [][NextRace]_vars

(***************************************************************************)
(* SpecBad: bad messages on both topics among well-formed ones, with a     *)
(* classifier that raises and with refused writes                          *)
(***************************************************************************)
BadModels == {RaisingModel, ConstModel(IdealIdx)}

BadMessages ==
    {SensorMsg(JObject(BaseReading)), SensorMsg(JObject(Replaced("ph", JStr))),
     SensorMsg(BadJson), SensorMsg(NonObject),
     StatusMsg(JObject(AllOn)), StatusMsg(JObject([k \in {"led"} |-> JStr])),
     StatusMsg(BadJson), StatusMsg(NonObject)}

BadIo == {NoFault, PublishFault, LogFault, WriteFault}

InitBad == InitWith(BadModels)

ReceiveBad ==
    /\ \E msg \in BadMessages, io \in BadIo : on_message(msg, io)
    /\ UNCHANGED deviceVars

NextBad == ReceiveBad

SpecBad == InitBad /\ [][NextBad]_vars

(***************************************************************************)
(* SpecStart: dashboard processes start, end and are killed, before any    *)
(* client runs                                                             *)
(***************************************************************************)
InitStart ==
    /\ InitState({NoModel}, {DEFAULT_LOG_INTERVAL_SECONDS})
    /\ flag_file = NoFlag
    /\ sessions = [p \in Sessions |-> FreshSession]

NextStart ==
    \/ \E p \in Sessions : StartCheck(p)
    \/ \E p \in Sessions, connected \in BOOLEAN : StartConnect(p, connected)
    \/ \E p \in Sessions, written \in BOOLEAN : StartWriteFlag(p, written)
    \/ \E p \in Sessions : Exit(p)
    \/ \E p \in Sessions : Crash(p)

SpecStart == InitStart /\ [][NextStart]_vars

(***************************************************************************)
(* SpecTimer: the poll cycles of one session in Auto Control over several  *)
(* seconds, the publish succeeding or failing                              *)
(***************************************************************************)
InitTimer == InitWith(WireModels)

TimerAutoApply == \E pub \in {"ok", "fail"} : AutoApply(pub)

TimerSecond ==
    /\ clock < StartClock + TimerSeconds
    /\ clock' = clock + 1
    /\ UNCHANGED <<ingestVars, latest_actuator, deviceVars, sent, last_auto, dashVars>>

NextTimer ==
    \/ AutoFirstReading
    \/ AutoModeChange
    \/ TimerAutoApply
    \/ TimerSecond

SpecTimer == InitTimer /\ [][NextTimer]_vars

(***************************************************************************)
(* SpecPub: the callers of publish_mqtt_simple under everything the        *)
(* transport does                                                          *)
(***************************************************************************)
PubModeChange == \E selected_mode \in {"Monitor Only", "Manual Control"} :
    ApplyModeChange(selected_mode)

PubManualToggle == \E name \in Driven, pub \in PubCases : ManualToggle(name, pub)

PubAllOnButton == \E pub \in PubCases : AllOnButton(pub)

PubAllOffButton == \E pub \in PubCases : AllOffButton(pub)

PubPublishActuatorCommand ==
    \E actuator_name \in Driven, state \in BOOLEAN, pub \in PubCases :
        publish_actuator_command(actuator_name, state, pub)

PubTurnAllOn == \E pub \in PubCases : turn_all_on(pub)

NextPub ==
    \/ PubModeChange
    \/ PubManualToggle
    \/ PubAllOnButton
    \/ PubAllOffButton
    \/ PubPublishActuatorCommand
    \/ PubTurnAllOn

SpecPub == InitWire /\ [][NextPub]_vars

(***************************************************************************)
(* SpecLabel: label_ph applied to one sample after another, at 28 degrees  *)
(* and above                                                               *)
(***************************************************************************)
LabelSample ==
    \E ph_value \in PhMin..PhMax, water_temp \in {28, 29},
       adjustment \in Adjustments :
        LabelPh(ph_value, water_temp, adjustment)

NextLabel == LabelSample

SpecLabel == InitCtl /\ [][NextLabel]_vars

(***************************************************************************)
(* SpecLog: the history log under readings at any rate, refused and failed *)
(* writes of the log, and restarts of the ingestion client                 *)
(***************************************************************************)
LogReceive ==
    /\ Len(log_file.lines) <= MaxRows
    /\ \E io \in {NoFault, LogFault, LogCreated} :
          on_message(SensorMsg(JObject(BaseReading)), io)
    /\ UNCHANGED deviceVars

NextLog ==
    \/ LogReceive
    \/ GateClockForward
    \/ GateRestart

SpecLog == InitGate /\ [][NextLog]_vars

(***************************************************************************)
(* SpecEcho: ALL ON and ALL OFF on the control topic, the device that applies *)
(* and reports them, and the one ingestion client that stores the reports. *)
(* Sensor readings are handled in between.                                 *)
(* The device's loops keep running (it applies a command that waits and    *)
(* reports its states every cycle), and the ingestion client's network     *)
(* loop handles the reports; a write of the snapshot may be refused, but   *)
(* not every time                                                          *)
(***************************************************************************)
EchoTurnAllOn == turn_all_on("ok")

EchoDeliverStatus == DeliverStatus(NoFault)

EchoDeliverRefused == \E io \in {OpenFault, WriteFault} : DeliverStatus(io)

NextEcho ==
    \/ EchoTurnAllOn
    \/ CtlTurnAllOff
    \/ ReceiveReading
    \/ DeviceOnMessage
    \/ DeviceReport
    \/ EchoDeliverStatus
    \/ EchoDeliverRefused

SpecEcho ==
    /\ InitCtl /\ [][NextEcho]_vars
    /\ WF_vars(DeviceOnMessage)
    /\ WF_vars(DeviceReport)
    /\ SF_vars(EchoDeliverStatus)

(***************************************************************************)
(* SpecEquiv: the two derivations of the rule command on a stored          *)
(* prediction with any labels, some of them missing                        *)
(***************************************************************************)
Missing == "(missing)"

LabelChoices(table) ==
    {table[i] : i \in DOMAIN table} \cup {"Unknown", "Error", Missing}

\* the document with the labels l, less the missing ones
LabelDoc(l) == [k \in {f \in DOMAIN l : l[f] # Missing} |-> l[k]]

EquivDocs ==
    {LabelDoc([ph_label |-> p, tds_label |-> t, ambient_label |-> a,
               light_label |-> l]) :
        p \in LabelChoices(PH_LABELS), t \in LabelChoices(TDS_LABELS),
        a \in LabelChoices(AMBIENT_LABELS), l \in LabelChoices(LIGHT_LABELS)}

InitEquiv ==
    /\ model = NoModel
    /\ log_interval = DEFAULT_LOG_INTERVAL_SECONDS
    /\ last_logged_time = 0
    /\ clock = StartClock
    /\ log_file = NoLog
    /\ latest_prediction \in {FileWith(doc) : doc \in EquivDocs}
    /\ latest_actuator = AbsentFile
    /\ output_pub = NoPub
    /\ ev = NoEvent
    /\ control_net = <<>>
    /\ status_net = <<>>
    /\ actuator_states = AllOff
    /\ sent = NoSent
    /\ last_auto = NoAuto
    /\ control_mode \in {"Monitor Only", "Auto Control"}
    /\ manual = AllOff
    /\ last_auto_control = 0
    /\ run_data = NothingLoaded
    /\ labelled = NoSample
    /\ flag_file = FlagOf(1)
    /\ sessions = [p \in Sessions |->
                      IF p = 1 THEN [FreshSession EXCEPT !.clients = 1,
                                                         !.mqtt_initialized = TRUE]
                      ELSE FreshSession]

NextEquiv ==
    \/ EnterAutoControl
    \/ AutoAutoApply
    \/ AutoApplyAutoControl

SpecEquiv == InitEquiv /\ [][NextEquiv]_vars

(***************************************************************************)
(* SpecDash: the runs of the dashboard script of one session in its three  *)
(* modes within one second, the publish succeeding or failing              *)
(***************************************************************************)
DashApplyNow == \E pub \in {"ok", "fail"} : ApplyNow(pub)

DashSwitchToManual == \E pub \in {"ok", "fail"} : SwitchToManual(pub)

DashManualToggle ==
    \E name \in Driven, pub \in {"ok", "fail"} : ManualToggle(name, pub)

DashAllOnButton == \E pub \in {"ok", "fail"} : AllOnButton(pub)

DashAllOffButton == \E pub \in {"ok", "fail"} : AllOffButton(pub)

NextDash ==
    \/ AutoFirstReading
    \/ AutoModeChange
    \/ TimerAutoApply
    \/ DashApplyNow
    \/ DashSwitchToManual
    \/ DashManualToggle
    \/ DashAllOnButton
    \/ DashAllOffButton
    \/ ViewRun

SpecDash == InitWire /\ [][NextDash]_vars

(***************************************************************************)
(* Claims about the status evaluation                                      *)
(***************************************************************************)
\* what the handler published and stored for the last sensor reading
Advisory == output_pub.msg
Snapshot == latest_prediction.doc
SensorHandled == ev.outcome = "sensor"
CriticalLabels(ph, tds, ambient) ==
    \/ ph \in {"Too Low", "Too High"}
    \/ tds \in {"Too Low", "Too High"}
    \/ ambient = "Bad"
IdealLabels(ph, tds, ambient, light) ==
    ph = "Normal" /\ tds = "Normal" /\ ambient = "Ideal" /\ light = "Normal"

\* C1: after every handled sensor reading, the advisory and the snapshot have
\* status Critical, and the advisory code ALERT_CRITICAL, exactly when the pH
\* or TDS label is Too Low or Too High or the ambient label is Bad, whatever
\* the other labels are (Unknown and Error included).
C1_CriticalIff ==
    SensorHandled =>
        /\ output_pub.sent /\ latest_prediction.state = "ok"
        /\ (Advisory.status = "Critical")
             <=> CriticalLabels(Advisory.ph, Advisory.tds, Advisory.ambient)
        /\ (Advisory.action = "ALERT_CRITICAL") <=> (Advisory.status = "Critical")
        /\ (Snapshot.status = "Critical")
             <=> CriticalLabels(Snapshot.ph_label, Snapshot.tds_label,
                                Snapshot.ambient_label)
        /\ (Snapshot.output = "ALERT_CRITICAL") <=> (Snapshot.status = "Critical")
        /\ model.kind = "const" =>
              /\ Advisory.ph = TableGet(PH_LABELS, model.idx[1])
              /\ Advisory.tds = TableGet(TDS_LABELS, model.idx[2])
              /\ Advisory.ambient = TableGet(AMBIENT_LABELS, model.idx[3])
              /\ Advisory.light = TableGet(LIGHT_LABELS, model.idx[4])

\* a Critical reading whose pH label is the Unknown sentinel and whose light
\* label is ideal: the ambient label alone decides
C1_Witness ==
    /\ SensorHandled /\ output_pub.sent
    /\ Advisory.status = "Critical" /\ Advisory.action = "ALERT_CRITICAL"
    /\ Advisory.ph = "Unknown" /\ Advisory.tds = "Normal"
    /\ Advisory.ambient = "Bad" /\ Advisory.light = "Normal"

\* C2: after every handled sensor reading the status is Optimal, with
\* ALL_NORMAL, exactly when the labels are Normal, Normal, Ideal, Normal; a
\* reading that is neither Critical nor Optimal is Warning with NEEDS_ATTENTION.
C2_OptimalIffElseWarning ==
    SensorHandled =>
        /\ output_pub.sent /\ latest_prediction.state = "ok"
        /\ (Advisory.status = "Optimal")
             <=> IdealLabels(Advisory.ph, Advisory.tds, Advisory.ambient,
                             Advisory.light)
        /\ (Advisory.action = "ALL_NORMAL") <=> (Advisory.status = "Optimal")
        /\ (~CriticalLabels(Advisory.ph, Advisory.tds, Advisory.ambient)
            /\ ~IdealLabels(Advisory.ph, Advisory.tds, Advisory.ambient,
                            Advisory.light))
             => Advisory.status = "Warning" /\ Advisory.action = "NEEDS_ATTENTION"
        /\ Snapshot.status = Advisory.status /\ Snapshot.output = Advisory.action
        /\ Snapshot.light_label = Advisory.light

\* the light label alone is off: Warning, not Critical
C2_Witness ==
    /\ SensorHandled /\ output_pub.sent
    /\ Advisory.ph = "Normal" /\ Advisory.tds = "Normal"
    /\ Advisory.ambient = "Ideal" /\ Advisory.light = "Too Dark"
    /\ Advisory.status = "Warning" /\ Advisory.action = "NEEDS_ATTENTION"

(***************************************************************************)
(* Claims about the classifier adapter                                     *)
(***************************************************************************)
ObjectReading == ev.topic = MQTT_TOPIC_SENSOR /\ ev.body.kind = "object"
SentinelAdvisory(l) ==
    [status |-> "Warning", ph |-> l, tds |-> l, ambient |-> l, light |-> l,
     action |-> "NEEDS_ATTENTION"]
SentinelSnapshot(l) ==
    /\ latest_prediction.state = "ok"
    /\ Snapshot.ph_label = l /\ Snapshot.tds_label = l
    /\ Snapshot.ambient_label = l /\ Snapshot.light_label = l
    /\ Snapshot.status = "Warning" /\ Snapshot.output = "NEEDS_ATTENTION"

\* C3: with no model loaded, every sensor message that parses as an object is
\* handled to the end, and the advisory it publishes (when the broker takes
\* it) and the snapshot it writes (when the file takes it) carry four Unknown
\* labels with Warning / NEEDS_ATTENTION, whatever the readings are; no
\* advisory and no snapshot is ever Optimal or Critical.
C3_NoModelAllUnknown ==
    model.kind = "none" =>
        /\ ObjectReading => SensorHandled
        /\ (SensorHandled /\ ev.io.publish = "ok") => output_pub.sent
        /\ (SensorHandled /\ ev.io.save = "ok") =>
              /\ SentinelSnapshot("Unknown")
              /\ \A f \in SensorFieldSet :
                    Snapshot[f] = safe_float(DictGet0(ev.body.obj, f))
        /\ output_pub.sent => Advisory = SentinelAdvisory("Unknown")
        /\ latest_prediction.state = "ok" => SentinelSnapshot("Unknown")

\* the reading {ph: "abc", ...} with no model: published and stored as Warning
C3_Witness ==
    /\ model.kind = "none" /\ SensorHandled /\ ev.io = NoFault
    /\ ev.body.obj = Replaced("ph", JStr)
    /\ output_pub.sent /\ Advisory.status = "Warning"
    /\ SentinelSnapshot("Unknown") /\ Snapshot.ph = 0

\* C4: with a classifier that raises in predict(), predict_condition answers
\* four Error labels instead of raising, so every sensor message that parses
\* as an object is handled to the end: its advisory (when the broker takes it)
\* and its snapshot (when the file takes it) carry four Error labels with
\* Warning / NEEDS_ATTENTION.
C4_PredictFailureAllError ==
    model.kind = "raises" =>
        /\ ObjectReading => SensorHandled
        /\ (SensorHandled /\ ev.io.publish = "ok") =>
              output_pub.sent /\ Advisory = SentinelAdvisory("Error")
        /\ (SensorHandled /\ ev.io.save = "ok") => SentinelSnapshot("Error")

\* predict() was called on the full reading and raised; the event still
\* published and stored
C4_Witness ==
    /\ model.kind = "raises" /\ SensorHandled /\ ev.frame.ok
    /\ ev.body.obj = BaseReading /\ ev.io = NoFault
    /\ output_pub.sent /\ Advisory = SentinelAdvisory("Error")
    /\ SentinelSnapshot("Error")

\* C5: for every sensor object and a loaded classifier, predict() is called
\* on a frame that carries, in the column of each feature field, 0.0 when the
\* field is absent or no number.
C5_FrameDefaultsToZero ==
    (ObjectReading /\ model.kind # "none") =>
        /\ ev.frame.ok
        /\ \A i \in 1..Len(FEATURE_FIELDS) :
              LET f == FEATURE_FIELDS[i]
              IN (f \notin DOMAIN ev.body.obj \/ ev.body.obj[f].t \in {"str", "null"})
                    => ev.frame.v[i] = 0

(***************************************************************************)
(* Claims about the rule-derived command                                   *)
(***************************************************************************)
RuleTable(l) ==
    [pump_nutrition_AB |-> l.tds_label \in {"Too Low", "Low"},
     pump_water |-> l.tds_label \in {"Too High", "High"},
     pump_Ph_Up |-> l.ph_label \in {"Too Low", "Low"},
     pump_Ph_Down |-> l.ph_label \in {"Too High", "High"},
     fan |-> l.ambient_label \in {"Bad", "Slightly Off"},
     led |-> l.light_label = "Too Dark"]

\* the labels a classifier that answers idx gives
LabelsAt(idx) ==
    [ph_label |-> TableGet(PH_LABELS, idx[1]),
     tds_label |-> TableGet(TDS_LABELS, idx[2]),
     ambient_label |-> TableGet(AMBIENT_LABELS, idx[3]),
     light_label |-> TableGet(LIGHT_LABELS, idx[4])]

\* C6: every rule-derived command, by the dashboard's inline rules and by
\* apply_auto_control alike, has the six actuator fields, each true exactly on
\* the labels of the rule table (pH Up on Too Low or Low, pH Down on Too High
\* or High, nutrition on TDS Too Low or Low, water on TDS Too High or High,
\* fan on Bad or Slightly Off, led on Too Dark); the labels are those of the
\* stored prediction, so Unknown and Error labels give the all-false command;
\* the command handed to the publisher is the derived one.
C6_RuleTable ==
    last_auto.derived =>
        /\ DOMAIN last_auto.payload = ActuatorSet
        /\ last_auto.payload = RuleTable(last_auto.labels)
        /\ latest_prediction.state = "ok"
        /\ \A f \in DOMAIN last_auto.labels :
              last_auto.labels[f] = latest_prediction.doc[f]
        /\ model.kind = "const" => last_auto.labels = LabelsAt(model.idx)
        /\ model.kind = "none" =>
              last_auto.labels = AllLabels("Unknown") /\ last_auto.payload = AllOff
        /\ model.kind = "raises" =>
              last_auto.labels = AllLabels("Error") /\ last_auto.payload = AllOff
        /\ sent.kind = "auto" => sent.payload = last_auto.payload

\* pH Too High with the other three ideal: the dashboard derives and publishes
\* the command with pump_Ph_Down alone
C6_Witness ==
    /\ last_auto.derived /\ last_auto.by = "dashboard"
    /\ last_auto.labels = [ph_label |-> "Too High", tds_label |-> "Normal",
                           ambient_label |-> "Ideal", light_label |-> "Normal"]
    /\ last_auto.payload = [AllOff EXCEPT !["pump_Ph_Down"] = TRUE]
    /\ sent.kind = "auto" /\ sent.result = "ok"
    /\ sent.payload = last_auto.payload

\* C7: a derivation of the rule command from the labels the previous
\* derivation had yields the command the previous derivation yielded,
\* whichever of the two derivations is used and whatever happened in between
\* to the actuator snapshot, the manual states, the published command and the
\* clock.
C7_DependsOnLabelsOnly ==
    [][(last_auto.derived /\ last_auto'.derived
        /\ last_auto'.labels = last_auto.labels)
           => last_auto'.payload = last_auto.payload]_vars

\* a second derivation from the same labels, at a later time, after the
\* device's echo was stored, a manual toggle was made and published, with a
\* command that switches something on
C7_Witness ==
    /\ last_auto.again /\ last_auto.payload # AllOff
    /\ latest_actuator.state = "ok" /\ manual # AllOff
    /\ sent.kind = "toggle"

(***************************************************************************)
(* Claims about the single-actuator publisher                              *)
(***************************************************************************)
\* the step is a call of publish_actuator_command
DeltaCall == sent' # sent /\ sent'.kind = "delta"

\* the transport took the command: it is the newest message on the control topic
Transmitted(call, net) ==
    call.result = "ok" => (net # <<>> /\ net[Len(net)] = call.payload)

\* C8: every call publish_actuator_command(name, state) hands the publisher a
\* command over the six actuators in which name has the requested state and
\* each other actuator has the value the stored snapshot holds for it when
\* the call is made (false for a key the snapshot lacks); when the transport
\* takes the command, that is the message on the control topic.
C8_DeltaCarriesStored ==
    [][DeltaCall =>
          /\ sent'.result # "raised"
          /\ DOMAIN sent'.payload = ActuatorSet
          /\ sent'.payload[sent'.actuator] = sent'.state
          /\ latest_actuator.state = "ok" =>
                \A k \in ActuatorSet \ {sent'.actuator} :
                    sent'.payload[k] = IF k \in DOMAIN latest_actuator.doc
                                       THEN latest_actuator.doc[k] ELSE FALSE
          /\ Transmitted(sent', control_net')]_vars

\* stored fan on and the rest off, request led on: fan and led on, rest off
C8_Witness ==
    /\ sent.kind = "delta" /\ sent.actuator = "led" /\ sent.state
    /\ sent.result = "ok"
    /\ sent.basis.state = "ok"
    /\ DOMAIN sent.basis.doc = ActuatorSet \cup {"timestamp"}
    /\ \A k \in ActuatorSet : sent.basis.doc[k] = (k = "fan")
    /\ \A k \in ActuatorSet : sent.payload[k] = (k \in {"fan", "led"})
    /\ control_net # <<>> /\ control_net[Len(control_net)] = sent.payload

\* C9: of two successive calls of publish_actuator_command that both publish,
\* on different actuators, the second command carries the state the first
\* call requested for its actuator, whatever the device and the ingestion
\* handler did in between.
C9_SecondCarriesFirst ==
    [][(DeltaCall /\ sent.kind = "delta" /\ sent.result = "ok"
        /\ sent'.result = "ok" /\ sent'.actuator # sent.actuator)
           => sent'.payload[sent.actuator] = sent.state]_vars

\* C10: a call of publish_actuator_command made while the snapshot document
\* is absent or does not load returns normally, with a command in which the
\* named actuator has the requested state and the other five are false; when
\* the transport takes the command, that is the message on the control topic.
C10_NoSnapshotAllOff ==
    [][(DeltaCall /\ latest_actuator.state # "ok") =>
          /\ sent'.result # "raised"
          /\ sent'.payload = [AllOff EXCEPT ![sent'.actuator] = sent'.state]
          /\ Transmitted(sent', control_net')]_vars

\* the write of an echo failed half way, and led on was then requested
C10_Witness ==
    /\ sent.kind = "delta" /\ sent.basis.state = "corrupt"
    /\ sent.actuator = "led" /\ sent.state /\ sent.result = "ok"
    /\ sent.payload = [AllOff EXCEPT !["led"] = TRUE]
    /\ control_net # <<>> /\ control_net[Len(control_net)] = sent.payload

(***************************************************************************)
(* Claims about the commands on the control topic                          *)
(***************************************************************************)
\* C11: every command on the control topic, and every command a publisher
\* got the transport to take, names each of the six actuators, whichever
\* publisher sent it: publish_actuator_command, turn_all_on, turn_all_off,
\* apply_auto_control, a manual toggle, ALL ON, ALL OFF or the auto-apply.
C11_CommandsAreFull ==
    /\ \A i \in DOMAIN control_net : ActuatorSet \subseteq DOMAIN control_net[i]
    /\ sent.result = "ok" => ActuatorSet \subseteq DOMAIN sent.payload

\* a single-actuator command built while the stored snapshot named one
\* actuator only is on the control topic with all six
C11_Witness ==
    /\ sent.kind = "delta" /\ sent.result = "ok" /\ sent.actuator = "fan"
    /\ sent.basis.state = "ok"
    /\ DOMAIN sent.basis.doc = {"led", "timestamp"}
    /\ control_net # <<>> /\ control_net[Len(control_net)] = sent.payload
    /\ DOMAIN sent.payload = ActuatorSet

\* C12: every command on the control topic carries a source field, manual or
\* auto.
C12_CommandsCarrySource ==
    \A i \in DOMAIN control_net :
        /\ "source" \in DOMAIN control_net[i]
        /\ control_net[i]["source"] \in {"manual", "auto"}

(***************************************************************************)
(* Claims about the rate gate of the history log                           *)
(***************************************************************************)
\* the times of the rows of prediction_log.csv, in file order
RowTimes ==
    [i \in 1..(Len(log_file.lines) - 1) |-> log_file.lines[i + 1].timestamp]

RowsWithin(from, to) ==
    Cardinality({i \in DOMAIN RowTimes : from <= RowTimes[i] /\ RowTimes[i] < to})

\* the k-th window of one log interval, counted from the first message
WindowStart(k) == StartClock + k * log_interval

\* the time.time() of the last sensor message handled
LastHandledAt ==
    IF latest_prediction.state = "ok" THEN latest_prediction.doc.timestamp ELSE 0

C14_RowsApartAcrossRestart ==
    \A i \in DOMAIN RowTimes :
        i > 1 => RowTimes[i] - RowTimes[i - 1] >= log_interval

\* C15: in every step of one ingestion client (every step but a restart),
\* last_logged_time does not decrease, also when the wall clock was set back
\* between two messages; a row that is appended is gated at the new
\* last_logged_time, which is not before the time the previous row of the
\* client was gated at.
C15_LastLoggedNeverDecreases ==
    [][GateRestart
       \/ /\ last_logged_time' >= last_logged_time
          /\ Len(log_file'.lines) > Len(log_file.lines) =>
                /\ log_file'.lines[Len(log_file'.lines)].timestamp = last_logged_time'
                /\ last_logged_time' >= last_logged_time + log_interval]_vars

\* a message was handled at a wall clock before the time of the last row
C15_Witness ==
    /\ ev.outcome = "sensor" /\ latest_prediction.state = "ok"
    /\ Len(RowTimes) >= 1
    /\ last_logged_time = RowTimes[Len(RowTimes)]
    /\ LastHandledAt < last_logged_time
    /\ clock = LastHandledAt

(***************************************************************************)
(* Claims about the snapshot documents                                     *)
(***************************************************************************)
\* the number a field of the last message holds: 0 when the field is absent
\* or holds no number
NumberIn(obj, f) ==
    IF f \in DOMAIN obj /\ obj[f].t \in {"num", "numstr", "bool"} THEN obj[f].v ELSE 0

SnapshotKeys ==
    SensorFieldSet \cup {"timestamp", "ph_label", "tds_label", "ambient_label",
                         "light_label", "status", "output", "icon", "color"}

\* C16: after a sensor message is handled and the snapshot file took the
\* write, the snapshot holds exactly the seventeen keys, each with the value of
\* that message: the number of each sensor field (0 when absent or no
\* number), the time of handling, and the labels, status and advisory code
\* published for it; this holds whether or not the message passed the rate
\* gate.
C16_SnapshotFromEventOnly ==
    (SensorHandled /\ ev.io.save = "ok") =>
        /\ latest_prediction.state = "ok"
        /\ DOMAIN Snapshot = SnapshotKeys
        /\ \A f \in SensorFieldSet : Snapshot[f] = NumberIn(ev.body.obj, f)
        /\ Snapshot.timestamp = clock
        /\ ev.io.publish = "ok" =>
              /\ Snapshot.ph_label = Advisory.ph /\ Snapshot.tds_label = Advisory.tds
              /\ Snapshot.ambient_label = Advisory.ambient
              /\ Snapshot.light_label = Advisory.light
              /\ Snapshot.status = Advisory.status /\ Snapshot.output = Advisory.action
        /\ Snapshot.color = CASE Snapshot.status = "Critical" -> "red"
                              [] Snapshot.status = "Optimal" -> "green"
                              [] OTHER -> "orange"
        /\ model.kind = "none" => Snapshot.ph_label = "Unknown"

\* the second message of the second lacks ph: the gate is shut, the one row
\* of the log has ph 6, the snapshot has ph 0
C16_Witness ==
    /\ SensorHandled /\ ev.io = NoFault
    /\ ev.body.obj = Without("ph")
    /\ latest_prediction.state = "ok" /\ Snapshot.ph = 0 /\ Snapshot.tds = 1200
    /\ Len(log_file.lines) = 2 /\ log_file.lines[2].ph = 6

\* C17: once the dashboard has read a snapshot document, every later read of
\* that document beside the handler gives a document again, the previous one
\* or the new one, and never the no-data result, unless a dump failed and left
\* the file damaged.
C17_ReaderNeverLosesSnapshot ==
    [][/\ (~run_data.data.none /\ latest_prediction.state # "corrupt")
             => ~run_data'.data.none
       /\ (~run_data.actuator_data.none /\ latest_actuator.state # "corrupt")
             => ~run_data'.actuator_data.none]_vars

\* C18: no run of the script ends in a loader: each loader returns, and it
\* returns None for a document that is absent, truncated, half-written or
\* damaged; the script then shows the waiting text in place of the readings
\* or of the actuator states.
C18_LoadersNeverRaise ==
    /\ ~run_data.raised
    /\ load_latest_prediction.ok /\ load_latest_actuator.ok
    /\ latest_prediction.state # "ok" => load_latest_prediction.v = NoData
    /\ latest_actuator.state # "ok" => load_latest_actuator.v = NoData
    /\ latest_prediction.state = "ok" =>
          load_latest_prediction.v = Loaded(latest_prediction.doc)
    /\ run_data.data = NoData => WaitingForSensor
    /\ run_data.actuator_data = NoData => WaitingForActuator

\* a reading logged at the start, its snapshot damaged by a failed dump, a
\* status message a second later, and a run of the script after it: the run
\* has the actuator states and no readings
C18_Witness ==
    /\ clock = StartClock + 1
    /\ Len(log_file.lines) = 2 /\ log_file.lines[2].timestamp = StartClock
    /\ latest_prediction = CorruptFile
    /\ ~run_data.actuator_data.none
    /\ run_data.actuator_data.doc.timestamp = StartClock + 1
    /\ run_data.data = NoData /\ ~run_data.raised
    /\ WaitingForSensor /\ ~WaitingForActuator

\* the snapshot on disk is the one of the last sensor message
SnapshotReflectsEvent ==
    /\ latest_prediction.state = "ok"
    /\ \A f \in SensorFieldSet : Snapshot[f] = NumberIn(ev.body.obj, f)
    /\ Snapshot.status = StatusOutput(predict_condition(ev.body.obj, model).v).status

\* C19 as stated: whenever the advisory of a sensor message is out, the
\* snapshot is already the one of that message (a failed dump apart).
C19_SnapshotBeforeAdvisory ==
    (SensorHandled /\ output_pub.sent /\ ev.io.save # "write")
        => SnapshotReflectsEvent

\* C19: within one sensor message the publish of the advisory comes first,
\* the rate gate and the append to the log second, the replacement of the
\* snapshot last: a step that appends a row or moves last_logged_time has the
\* publish behind it and leaves the snapshot alone, and a step that touches
\* the snapshot has the publish and the gate behind it and leaves the
\* advisory, the log and last_logged_time alone.
C19_AdvisoryThenLogThenSnapshot ==
    [][/\ (log_file' # log_file \/ last_logged_time' # last_logged_time) =>
             /\ SensorHandled /\ ev.io.publish \in {"ok", "fail"}
             /\ ev.io.publish = "ok" => output_pub.sent
             /\ ev.io.save = "due"
             /\ UNCHANGED <<output_pub, latest_prediction>>
       /\ latest_prediction' # latest_prediction =>
             /\ SensorHandled /\ ev.io.publish \in {"ok", "fail"}
             /\ ev.io.publish = "ok" => output_pub.sent
             /\ ev.io.log = "ok"
             /\ UNCHANGED <<output_pub, log_file, last_logged_time>>
       /\ output_pub'.sent /\ output_pub' # output_pub =>
             UNCHANGED <<log_file, last_logged_time, latest_prediction>>]_vars

\* the advisory of a reading is out and its row is in the log, the snapshot
\* is being written
C19_Witness ==
    /\ SensorHandled /\ output_pub.sent
    /\ Len(log_file.lines) = 2 /\ log_file.lines[2].timestamp = clock
    /\ ev.io.log = "ok" /\ ev.io.save = "begin"
    /\ latest_prediction.state = "writing"

\* C20: the step that handles a status message stores the fields of the
\* message and the time of receipt as the actuator snapshot and leaves the
\* prediction snapshot, the log and last_logged_time as they were; it hands no
\* frame to the classifier and publishes no advisory.  The step that handles
\* a sensor message leaves the actuator snapshot as it was.
C20_StatusTouchesOnlyActuator ==
    [][/\ (ev'.topic = MQTT_TOPIC_ACTUATOR /\ ev'.body.kind = "object") =>
             /\ latest_actuator'.state = "ok"
             /\ DOMAIN latest_actuator'.doc = DOMAIN ev'.body.obj \cup {"timestamp"}
             /\ \A k \in DOMAIN ev'.body.obj :
                   latest_actuator'.doc[k] = ev'.body.obj[k]
             /\ latest_actuator'.doc.timestamp = clock
             /\ UNCHANGED <<latest_prediction, log_file, last_logged_time>>
             /\ ev'.frame = NoFrame
             /\ ~output_pub'.sent
       /\ ev'.topic = MQTT_TOPIC_SENSOR => UNCHANGED latest_actuator]_vars

\* a status message with the one key led handled after a reading: the
\* snapshot and the row of the reading are there, the actuator snapshot is the
\* message with its time
C20_Witness ==
    /\ ev.outcome = "actuator"
    /\ latest_actuator.state = "ok"
    /\ DOMAIN latest_actuator.doc = {"led", "timestamp"}
    /\ latest_actuator.doc.led /\ latest_actuator.doc.timestamp = clock
    /\ latest_prediction.state = "ok" /\ Snapshot.ph = 6
    /\ Len(log_file.lines) = 2 /\ last_logged_time = clock
    /\ ~output_pub.sent

(***************************************************************************)
(* Claims about faults, the flag file and the presentation layer           *)
(***************************************************************************)
\* C21: the step that handles a status message with some of the six keys
\* leaves every key the message lacks in the actuator snapshot, with the value
\* the snapshot had for it before.
C21_MissingKeysKeepStored ==
    [][(/\ ev'.topic = MQTT_TOPIC_ACTUATOR /\ ev'.body.kind = "object"
        /\ latest_actuator.state = "ok")
          => \A k \in (ActuatorSet \cap DOMAIN latest_actuator.doc)
                         \ DOMAIN ev'.body.obj :
                /\ latest_actuator'.state = "ok"
                /\ k \in DOMAIN latest_actuator'.doc
                /\ latest_actuator'.doc[k] = latest_actuator.doc[k]]_vars

\* the last message handled is the well-formed reading, with nothing refused
GoodHandled == SensorHandled /\ ev.body = JObject(BaseReading) /\ ev.io = NoFault

\* C22 as stated: the handler returns for every message, and the state after
\* a well-formed reading is the one of a run in which only well-formed
\* readings arrived: its snapshot, its advisory, and in the log the header and
\* the one row of the first such reading, with last_logged_time its time.
C22_AsIfBadNeverArrived ==
    /\ ev.outcome # "raised"
    /\ GoodHandled =>
          /\ SnapshotReflectsEvent /\ output_pub.sent
          /\ Len(log_file.lines) = 2
          /\ \A f \in SensorFieldSet : log_file.lines[2][f] = BaseReading[f].v
          /\ log_file.lines[2].ph_label = Snapshot.ph_label
          /\ last_logged_time = clock

\* C22: the handler returns for every message, and after a well-formed
\* reading handled with nothing refused the snapshot and the advisory are
\* those of that reading, whatever arrived before it.
C22_HandlerAlwaysReturns ==
    /\ ev.outcome \in {"none", "dropped", "sensor", "actuator"}
    /\ GoodHandled =>
          /\ SnapshotReflectsEvent /\ Snapshot.timestamp = clock
          /\ DOMAIN Snapshot = SnapshotKeys
          /\ output_pub.sent
          /\ Advisory.status = Snapshot.status /\ Advisory.action = Snapshot.output
          /\ Advisory.ph = Snapshot.ph_label /\ Advisory.tds = Snapshot.tds_label

\* the well-formed reading handled after a reading whose ph was a word: the
\* one row of the log is the earlier reading's, with ph 0
C22_Witness ==
    /\ GoodHandled /\ SnapshotReflectsEvent /\ Snapshot.ph = 6
    /\ Len(log_file.lines) = 2 /\ log_file.lines[2].ph = 0

\* C23: the step that handles a payload that is not JSON, on either topic,
\* drops it: both snapshot documents, the log and last_logged_time stay as
\* they were, no frame reaches the classifier and no advisory is published.
C23_BadJsonDropped ==
    [][ev'.body = BadJson =>
          /\ ev'.outcome = "dropped" /\ ev'.frame = NoFrame
          /\ ~output_pub'.sent
          /\ UNCHANGED <<latest_prediction, latest_actuator, log_file,
                         last_logged_time>>]_vars

\* a payload that is not JSON dropped on the status topic after a reading and
\* a status report were stored
C23_Witness ==
    /\ ev.body = BadJson /\ ev.topic = MQTT_TOPIC_ACTUATOR /\ ev.outcome = "dropped"
    /\ latest_prediction.state = "ok" /\ Snapshot.ph = 6
    /\ latest_actuator.state = "ok"
    /\ DOMAIN latest_actuator.doc = ActuatorSet \cup {"timestamp"}
    /\ latest_actuator.doc.fan
    /\ Len(log_file.lines) = 2 /\ last_logged_time = clock
    /\ ~output_pub.sent

\* C24: the step that handles a sensor message replaces the snapshot by the
\* one of that message whenever the snapshot file takes the write, with the
\* publish or the log write refused or not, and whatever an earlier refused
\* write left of the file; a message after a refused snapshot write is handled
\* like any other.
C24_FailuresDoNotStopSnapshot ==
    [][(ev'.outcome = "sensor" /\ ev'.io.save = "ok" /\ ev' # ev) =>
          /\ SnapshotReflectsEvent'
          /\ latest_prediction'.doc.timestamp = clock
          /\ ev'.io.publish = "fail" => ~output_pub'.sent
          /\ ev'.io.log = "fail" => log_file' = log_file]_vars

\* a reading whose log write was refused: no log file, the gate stamped, the
\* snapshot stored
C24_Witness ==
    /\ SensorHandled /\ ev.io = LogFault /\ ev.body = JObject(BaseReading)
    /\ ~log_file.exists /\ last_logged_time = clock
    /\ SnapshotReflectsEvent /\ Snapshot.ph = 6 /\ output_pub.sent

\* the dashboard processes with a client loop running
Running == {p \in Sessions : sessions[p].clients > 0}

\* C25: at no time does more than one ingestion client run, whatever the
\* order in which the dashboard processes call get_mqtt_client.
C25_OneIngestionActor ==
    /\ \A p \in Sessions : sessions[p].clients <= 1
    /\ \A p, q \in Running : p = q

\* C26: the flag file is there exactly when an ingestion client runs.
C26_FlagIffRunning == flag_file.exists <=> Running # {}

\* the step makes an automatic publish attempt after an earlier one
NextAttempt == sent'.kind = "auto" /\ sent' # sent /\ sent.kind = "auto"

\* C27 as stated: two automatic publish attempts that follow each other are at
\* least five seconds apart, whether the first succeeded or failed.
C27_AttemptsFiveApart ==
    [][NextAttempt => sent'.at - sent.at >= 5]_vars

\* C27: an automatic publish attempt that follows a successful one comes at
\* least five seconds after it; the time of the last applied command moves
\* only with a successful attempt, to the time of that attempt.
C27_AppliedFiveApart ==
    [][/\ (NextAttempt /\ sent.result = "ok") => sent'.at - sent.at >= 5
       /\ last_auto_control' # last_auto_control =>
             /\ sent'.kind = "auto" /\ sent'.result = "ok"
             /\ last_auto_control' = clock /\ sent'.at = clock]_vars

\* a poll cycle three seconds after a successful automatic publish: the
\* command is derived and not published
C27_Witness ==
    /\ control_mode = "Auto Control"
    /\ sent.kind = "auto" /\ sent.result = "ok" /\ last_auto_control = sent.at
    /\ last_auto.by = "dashboard" /\ last_auto.at = sent.at + 3
    /\ clock = last_auto.at

\* the step is one of the presentation layer or of the command publisher
PresentationStep ==
    \/ sent' # sent \/ control_net' # control_net
    \/ control_mode' # control_mode \/ manual' # manual
    \/ last_auto_control' # last_auto_control \/ last_auto' # last_auto
    \/ run_data' # run_data

\* C28: a step of the presentation layer or of the command publisher leaves
\* both snapshot documents and the log as they were, and the actuator snapshot
\* changes only in the step that handles a status message, which publishes no
\* command.
C28_OnlyHandlerWrites ==
    [][/\ PresentationStep =>
             UNCHANGED <<latest_prediction, latest_actuator, log_file>>
       /\ latest_actuator' # latest_actuator =>
             /\ ev'.topic = MQTT_TOPIC_ACTUATOR /\ ev'.outcome = "actuator"
             /\ ~PresentationStep]_vars

\* led was reported on and read by the publisher, the command switching it
\* off is published, and the snapshot still has it on
C28_Witness ==
    /\ sent.kind = "delta" /\ sent.actuator = "led" /\ ~sent.state
    /\ sent.result = "ok" /\ sent.payload.led = FALSE
    /\ latest_actuator.state = "ok" /\ latest_actuator.doc.led = TRUE
    /\ sent.basis = latest_actuator

\* C29: every call of publish_mqtt_simple returns True or False and never
\* raises; it returns True only when its message went out on the control
\* topic, and whatever it returns at most one message went out.
C29_PublisherReturnsBoolean ==
    [][sent' # sent =>
          /\ sent'.result \in {"ok", "fail"}
          /\ sent'.result = "ok" => control_net' = Push(control_net, sent'.payload)
          /\ control_net' \in {control_net, Push(control_net, sent'.payload)}]_vars

\* ALL ON with the connect refused: False is returned, nothing is on the
\* control topic and the manual states are as they were
C29_Witness ==
    /\ sent.kind = "all_on" /\ sent.result = "fail"
    /\ control_net = <<>> /\ manual = AllOff
    /\ control_mode = "Manual Control"

\* one of the four labels of the last advisory is Unknown or Error
SomeSentinel ==
    {Advisory.ph, Advisory.tds, Advisory.ambient, Advisory.light}
        \cap {"Unknown", "Error"} # {}

\* C30 as stated: an advisory with a label Unknown or Error has status Warning
\* and code NEEDS_ATTENTION.
C30_SentinelIsWarning ==
    (SensorHandled /\ output_pub.sent /\ SomeSentinel) =>
        Advisory.status = "Warning" /\ Advisory.action = "NEEDS_ATTENTION"

\* C30: an advisory with a label Unknown or Error is never Optimal: it is
\* Critical with ALERT_CRITICAL when another label is critical, and Warning
\* with NEEDS_ATTENTION otherwise; the snapshot has the same status.
C30_SentinelNeverOptimal ==
    (SensorHandled /\ output_pub.sent /\ SomeSentinel) =>
        /\ Advisory.status # "Optimal" /\ Advisory.action # "ALL_NORMAL"
        /\ IF CriticalLabels(Advisory.ph, Advisory.tds, Advisory.ambient)
           THEN Advisory.status = "Critical" /\ Advisory.action = "ALERT_CRITICAL"
           ELSE Advisory.status = "Warning" /\ Advisory.action = "NEEDS_ATTENTION"
        /\ latest_prediction.state = "ok" /\ Snapshot.status = Advisory.status

\* the classifier answers an index outside the light table, the three other
\* labels are the ideal ones: Warning
C30_Witness ==
    /\ SensorHandled /\ output_pub.sent
    /\ Advisory.ph = "Normal" /\ Advisory.tds = "Normal"
    /\ Advisory.ambient = "Ideal" /\ Advisory.light = "Unknown"
    /\ Advisory.status = "Warning" /\ Advisory.action = "NEEDS_ATTENTION"
    /\ model.kind = "const"

(***************************************************************************)
(* Claims about the gate, the advisory and the log                         *)
(***************************************************************************)
\* C31: a step that handles a message changes last_logged_time only when it
\* appended a row to the history log; a due reading whose append is refused
\* leaves last_logged_time as it was.
C31_StampOnlyWithRow ==
    [][last_logged_time' # last_logged_time =>
          Len(log_file'.lines) > Len(log_file.lines)]_vars

\* the status and the four labels of a document or of a log row are those of
\* the advisory a
SameVerdict(a, doc) ==
    /\ doc.status = a.status
    /\ doc.ph_label = a.ph /\ doc.tds_label = a.tds
    /\ doc.ambient_label = a.ambient /\ doc.light_label = a.light

\* the step appended a row to the history log
RowAppended == Len(log_file'.lines) > Len(log_file.lines)

\* what the step stored agrees with the advisory a
StoredAgrees(a) ==
    /\ ev'.io.save = "ok" =>
          /\ latest_prediction'.state = "ok"
          /\ SameVerdict(a, latest_prediction'.doc)
          /\ latest_prediction'.doc.output = a.action
    /\ RowAppended => SameVerdict(a, log_file'.lines[Len(log_file'.lines)])

\* C32 as stated: every step that handles a sensor message that is a JSON
\* object publishes one advisory, with the status, labels and code of the
\* snapshot and of the row the step writes.
C32_ExactlyOneAdvisory ==
    [][(ev'.outcome = "sensor" /\ ev'.body.kind = "object") =>
          /\ output_pub'.sent
          /\ StoredAgrees(output_pub'.msg)]_vars

\* C32: every step that handles a sensor message that is a JSON object
\* publishes at most one advisory, and publishes it unless the publish call
\* raises; the status, labels and code of a published advisory are those of
\* the snapshot and of the row the step writes, whether or not the gate lets
\* it write a row.
C32_AdvisoryAgreesWithStored ==
    [][(ev'.outcome = "sensor" /\ ev'.body.kind = "object") =>
          /\ output_pub'.sent <=> ev'.io.publish = "ok"
          /\ output_pub'.sent => StoredAgrees(output_pub'.msg)]_vars

\* a reading handled while the gate is closed (the append of the due reading
\* before it was refused): the advisory is out, the snapshot agrees with it
\* and the log has no row
C32_Witness ==
    /\ SensorHandled /\ ev.io = NoFault /\ output_pub.sent
    /\ ~log_file.exists /\ last_logged_time = clock
    /\ latest_prediction.state = "ok" /\ Snapshot.output = Advisory.action
    /\ Snapshot.status = "Optimal" /\ Advisory.status = "Optimal"

(***************************************************************************)
(* Claims about the runs of the dashboard script                           *)
(***************************************************************************)
\* the step calls the publisher or puts a message on the control topic
Published ==
    \/ sent' # sent
    \/ /\ control_net' # control_net
       /\ ~(control_net # <<>> /\ control_net' = Tail(control_net))

\* C33: a run of the script in Monitor Only publishes nothing on the control
\* topic, whatever the documents hold; a rule-derived command is published
\* only by a run in Auto Control that loaded a prediction.
C33_MonitorOnlyPublishesNothing ==
    [][Published =>
          /\ control_mode # "Monitor Only"
          /\ sent'.kind = "auto" =>
                /\ control_mode = "Auto Control"
                /\ latest_prediction.state = "ok"
                /\ sent'.payload = Predicted(latest_prediction.doc)]_vars

\* a run in Monitor Only that loaded a prediction, five seconds and more
\* after the last applied command (there was none): nothing was published
C33_Witness ==
    /\ control_mode = "Monitor Only"
    /\ ~run_data.data.none
    /\ clock - last_auto_control >= AUTO_APPLY_SECONDS
    /\ sent = NoSent /\ control_net = <<>>

\* C34: the command a toggle button publishes has, in the five fields of the
\* other actuators, the values of the stored actuator snapshot.
C34_ToggleCarriesSnapshot ==
    [][(sent' # sent /\ sent'.kind = "toggle" /\ latest_actuator.state = "ok") =>
          \A k \in ActuatorSet \ {sent'.actuator} :
              sent'.payload[k] = latest_actuator.doc[k]]_vars

\* C35: the manual states recorded by the session change only in a step whose
\* publish succeeded; after a toggle, ALL ON or ALL OFF whose publish failed
\* they are what they were before the click.
C35_ManualOnlyOnSuccess ==
    [][manual' # manual => sent'.result = "ok"]_vars

(***************************************************************************)
(* Claims about the two derivations of the rule command                    *)
(***************************************************************************)
\* C36: on every stored prediction, whatever its labels and whichever of
\* them are missing, the command apply_auto_control derives is the command
\* the dashboard's inline rules derive, in all six fields, and it is the
\* command handed to the publisher.
C36_DerivationsAgree ==
    last_auto.derived =>
        /\ DOMAIN last_auto.payload = ActuatorSet
        /\ last_auto.by = "apply_auto_control" =>
              last_auto.payload = Predicted(latest_prediction.doc)
        /\ last_auto.by = "dashboard" =>
              last_auto.payload = AutoControlPayload(latest_prediction.doc)
        /\ sent.payload = last_auto.payload

\* apply_auto_control on a prediction without a pH label, with ambient Bad and
\* light Too Dark, after the dashboard published its command: fan and led
C36_Witness ==
    /\ last_auto.derived /\ last_auto.by = "apply_auto_control"
    /\ DOMAIN latest_prediction.doc = {"tds_label", "ambient_label", "light_label"}
    /\ latest_prediction.doc.tds_label = "Error"
    /\ latest_prediction.doc.ambient_label = "Bad"
    /\ latest_prediction.doc.light_label = "Too Dark"
    /\ last_auto.payload = [AllOff EXCEPT !["fan"] = TRUE, !["led"] = TRUE]
    /\ last_auto_control = clock

\* C37: no rule-derived command, of either derivation and on any labels,
\* switches on both pH pumps or both the nutrition pump and the water pump.
C37_OpposedPumpsExclusive ==
    last_auto.derived =>
        /\ ~(last_auto.payload.pump_Ph_Up /\ last_auto.payload.pump_Ph_Down)
        /\ ~(last_auto.payload.pump_nutrition_AB /\ last_auto.payload.pump_water)
        /\ ~(sent.payload.pump_Ph_Up /\ sent.payload.pump_Ph_Down)
        /\ ~(sent.payload.pump_nutrition_AB /\ sent.payload.pump_water)

\* pH Low and TDS Too High: pH Up and the water pump alone, by
\* apply_auto_control
C37_Witness ==
    /\ last_auto.derived /\ last_auto.by = "apply_auto_control"
    /\ latest_prediction.doc = [ph_label |-> "Low", tds_label |-> "Too High",
                                ambient_label |-> "Ideal", light_label |-> "Normal"]
    /\ sent.payload = [AllOff EXCEPT !["pump_Ph_Up"] = TRUE, !["pump_water"] = TRUE]

(***************************************************************************)
(* Claims about the round trip of a command                                *)
(***************************************************************************)
\* the last published command reached the device, which applied it, and no
\* command is on its way
CommandApplied ==
    /\ sent.result = "ok" /\ DOMAIN sent.payload = ActuatorSet
    /\ control_net = <<>>
    /\ actuator_states = sent.payload

\* the actuator snapshot holds the six values of the last published command
SnapshotHoldsCommand ==
    /\ latest_actuator.state = "ok"
    /\ DOMAIN sent.payload = ActuatorSet
    /\ ActuatorSet \subseteq DOMAIN latest_actuator.doc
    /\ \A k \in ActuatorSet : latest_actuator.doc[k] = sent.payload[k]

\* C38: once a published six-field command was applied by the device, the
\* actuator snapshot eventually holds the six values of that command, unless
\* a later command is published before; the device keeps reporting and the
\* one ingestion client keeps handling the reports.
C38_CommandReachesSnapshot ==
    CommandApplied ~> (SnapshotHoldsCommand \/ control_net # <<>>)

\* ALL ON was published and applied, its report was handled and the
\* snapshot holds six times true
C38_Witness ==
    /\ CommandApplied /\ SnapshotHoldsCommand
    /\ sent.kind = "all_on" /\ actuator_states = AllOn
    /\ ev.outcome = "actuator" /\ ev.io = NoFault
    /\ status_net = <<>>

(***************************************************************************)
(* Claims about the history log                                            *)
(***************************************************************************)
\* C39: every step leaves the lines the log had, in their order, before the
\* lines it adds, and a log with a line has the header line as its first
\* line and nowhere else, whether the file existed or not when its first row
\* was written.
C39_AppendOnlyOneHeader ==
    [][/\ Len(log_file'.lines) >= Len(log_file.lines)
       /\ SubSeq(log_file'.lines, 1, Len(log_file.lines)) = log_file.lines
       /\ log_file'.lines # <<>> =>
             /\ log_file'.lines[1] = HeaderLine
             /\ \A i \in 2..Len(log_file'.lines) :
                   log_file'.lines[i] # HeaderLine]_vars

(***************************************************************************)
(* Claims about the labels of the training data                            *)
(***************************************************************************)
\* C40: of two samples at 28 degrees or below, labelled one after the other,
\* the one with the higher pH does not get the lower class index.
C40_LabelPhMonotone ==
    [][(/\ labelled.labelled /\ labelled.water_temp <= 28
        /\ labelled'.water_temp <= 28
        /\ labelled.ph_value <= labelled'.ph_value)
          => labelled.label <= labelled'.label]_vars

====
